---- MODULE Spec2Model ----
(***************************************************************************)
(* Release-notes ingestion: the pipeline orchestrator (src/src/pipeline.py) *)
(* and the failed-file retry script (src/scripts/retry_failed_files.py),    *)
(* with the components they drive: the JSON ledgers of LogManager, the      *)
(* deduplicating embedding coordinator of EmbeddingClient, the Qdrant       *)
(* uploader and the R2 object store.                                        *)
(*                                                                          *)
(* Python values are modelled as strings (hashes, names, point ids are      *)
(* built with \o exactly as the code builds them), dicts as records read    *)
(* through DictGet, Optional[List] as a tagged record.  Timestamps of       *)
(* ledger entries are left out: no decision in the code reads them.         *)
(***************************************************************************)
EXTENDS Integers, Sequences, FiniteSets, TLC

(* ------------------------------ bounds -------------------------------- *)
\* runs (pipeline or retry) that find work to do, in one behaviour
MaxRuns == 3
\* environment events in one behaviour: failed requests of a collaborator
\* and deletions of a source object
MaxFaults == 2
\* chunks of the longest document
MaxChunks == 3
\* points per upsert request; the code uses 100 (qdrant_uploader.py:162),
\* scaled down so that a document spans more than one batch
batch_size == 2
\* the longest list of texts handed to generate_batch_embeddings
MaxTexts == 4
\* the largest batch limit a backend is configured with
MaxBatchLimit == 2
\* LogManager calls made by one thread
MaxAppends == 2
\* DoclingClient.timeout and poll_interval, in units of one second
MaxTimeout == 4
MaxPollInterval == 3
\* paragraphs of a document, tokens of a paragraph, and the chunker's
\* chunk_size_tokens
MaxParagraphs == 3
MaxParagraphTokens == 6
MaxChunkSize == 2

\* items one run hands to the embedding coordinator
MaxItems == 3

(* --------------------------- python values ---------------------------- *)
None == "None"
PyNone == [tag |-> "None", items |-> <<>>]
PyList(s) == [tag |-> "list", items |-> s]
IsNone(v) == v.tag = "None"
\* truthiness of an Optional[List]: None and [] are falsy
Truthy(v) == v.tag = "list" /\ Len(v.items) > 0
DictGet(d, k, default) == IF k \in DOMAIN d THEN d[k] ELSE default
Range(s) == {s[i] : i \in 1..Len(s)}
Count(s, P(_)) == Cardinality({i \in 1..Len(s) : P(s[i])})

(* --------------------------- configuration ---------------------------- *)
source_prefix == "source/"
markdown_prefix == "markdown/"
filename_collection == "filename-granite-embedding30m"
content_collection == "releasenotes-bge-m3"
filename_model == "granite-embedding:30m"
content_model == "bge-m3"

(* ------------------------- the object store --------------------------- *)
\* An object key is prefix + dir + "/" + stem + "." + ext, kept in parts.
KeyA == [prefix |-> source_prefix, dir |-> "x", stem |-> "a", ext |-> "pdf"]
KeyB == [prefix |-> source_prefix, dir |-> "x", stem |-> "b", ext |-> "docx"]
\* list_objects_v2 returns keys in lexicographic order
SourceOrder == <<KeyA, KeyB>>
SourceKeys == Range(SourceOrder)
\* the bytes of each source object; the sources never change
ContentOf(key) == IF key = KeyA THEN "A" ELSE "B"
\* Path(key).name
PathName(key) == key.stem \o "." \o key.ext
AllNames == {PathName(k) : k \in SourceKeys}
\* Path(filename).stem, for the names that occur
PathStem(filename) == (CHOOSE k \in SourceKeys : PathName(k) = filename).stem
\* ETag of a listed object: the MD5 of the bytes for a single-part upload
\* (KeyA), an unrelated value for a multipart upload (KeyB)
ETag(key) == IF key = KeyA THEN "md5:" \o ContentOf(key) ELSE "etag-multipart"

list_files(files, order) == SelectSeq(order, LAMBDA k : k \in files)

\* markdown objects: a set of [key, body]; put overwrites by key
PutObject(objs, key, body) ==
    {o \in objs : o.key # key} \cup {[key |-> key, body |-> body]}

(* ------------------------------ hashing ------------------------------- *)
hash_file(file_content) == "md5:" \o file_content
hash_file_lightweight(file_content) == "xxh64:" \o file_content
hash_text(text) == "md5:" \o text

(* --------------------- conversion service, chunker -------------------- *)
\* the normalized text the conversion service produces for given bytes
MarkdownOf(file_content) == "md(" \o file_content \o ")"
Markdowns == {MarkdownOf(ContentOf(k)) : k \in SourceKeys}
Encode(markdown) == "utf8(" \o markdown \o ")"
Decode(bytes) == CHOOSE m \in Markdowns : Encode(m) = bytes
\* number of chunks the splitter produces for a text
NumChunks(markdown) == IF markdown = MarkdownOf("A") THEN MaxChunks ELSE 1

convert_from_memory(file_content, filename, fails) ==
    IF fails THEN None ELSE MarkdownOf(file_content)

\* a variant that numbers the chunks as enumerate does by default
enumerate_chunks_from_zero(text_chunks, filename) ==
    [i \in 1..Len(text_chunks) |->
        [text |-> text_chunks[i], filename |-> filename, chunk_number |-> i - 1,
         md5_hash |-> hash_text(text_chunks[i])]]

\* for i, text in enumerate(text_chunks, start=1): chunks.append(Chunk(...))
enumerate_chunks(text_chunks, filename) ==
    [i \in 1..Len(text_chunks) |->
        [text |-> text_chunks[i], filename |-> filename, chunk_number |-> i,
         md5_hash |-> hash_text(text_chunks[i])]]

chunk_markdown(markdown_content, filename, raises) ==
    IF raises THEN <<>>
    ELSE enumerate_chunks([i \in 1..NumChunks(markdown_content) |->
                              markdown_content \o "#" \o ToString(i)], filename)

transform_path(source_key) ==
    [prefix |-> markdown_prefix, dir |-> source_key.dir,
     stem |-> source_key.stem, ext |-> "md"]

upload_markdown(objs, source_key, markdown_content, fails) ==
    IF fails THEN [ok |-> FALSE, objs |-> objs]
    ELSE [ok |-> TRUE,
          objs |-> PutObject(objs, transform_path(source_key), Encode(markdown_content))]

(* ------------------------------ LogManager ---------------------------- *)
\* a variant that keeps one entry per file name, the newest
add_conversion_entry_replacing(log, filename, file_hash) ==
    Append(SelectSeq(log, LAMBDA e : e.filename # filename),
           [filename |-> filename, hash |-> file_hash])

add_conversion_entry(log, filename, file_hash) ==
    Append(log, [filename |-> filename, hash |-> file_hash])

add_upload_entry(log, filename, file_hash) ==
    Append(log, [filename |-> filename, hash |-> file_hash])

add_failed_entry(log, filename, file_hash, error, stage) ==
    Append(log, [filename |-> filename, hash |-> file_hash,
                 error |-> error, stage |-> stage])

log_embedding_success(log, filename, md5_hash, collection_name, chunks_created, model_name) ==
    Append(log, [filename |-> filename, md5_hash |-> md5_hash,
                 collection_name |-> collection_name,
                 chunks_created |-> chunks_created,
                 model_name |-> model_name, status |-> "success"])

log_skipped_file(log, filename, md5_hash, skip_reason, found_in, collection_name) ==
    Append(log, [filename |-> filename, md5_hash |-> md5_hash,
                 skip_reason |-> skip_reason, found_in |-> found_in,
                 collection_name |-> collection_name])

\* a variant that takes an entry of any collection for a hit
check_embedding_exists_in_any_collection(log, md5_hash, collection_name) ==
    \E i \in 1..Len(log) : DictGet(log[i], "md5_hash", None) = md5_hash

check_embedding_exists(log, md5_hash, collection_name) ==
    \E i \in 1..Len(log) :
        /\ DictGet(log[i], "md5_hash", None) = md5_hash
        /\ DictGet(log[i], "collection_name", None) = collection_name

\* scroll(collection, filter metadata.md5_hash == md5_hash, limit 1)
\* a variant that takes a failed scroll for a hit
check_qdrant_exists_found_on_error(points, md5_hash, scroll) ==
    scroll # "ok" \/ \E p \in points : p.metadata_md5_hash = md5_hash

\* scroll: "ok", or the exception client.scroll raises: "index_missing"
\* (Index required but not found) or "error" (any other); both return False
check_qdrant_exists(points, md5_hash, scroll) ==
    IF scroll = "ok"
    THEN \E p \in points : p.metadata_md5_hash = md5_hash
    ELSE FALSE

\* a variant that looks the hash up in the filename column
is_uploaded_by_name(log, file_hash) ==
    \E i \in 1..Len(log) : DictGet(log[i], "filename", None) = file_hash

is_uploaded(log, file_hash) ==
    \E i \in 1..Len(log) : DictGet(log[i], "hash", None) = file_hash

get_processed_hashes(conversion, upload) ==
    {DictGet(conversion[i], "hash", None) : i \in 1..Len(conversion)}
        \cup {DictGet(upload[i], "hash", None) : i \in 1..Len(upload)}

(* ---------------------------- EmbeddingClient ------------------------- *)
\* _generate_embedding after its retries: a vector, or an exception
Vector(model, text) == "vec:" \o model \o ":" \o text

\* has_lm: the client was constructed with a log_manager
generate_filename_embedding(elog, filename, file_content, collection_name, has_lm, fails) ==
    IF fails
    THEN [value |-> None, embedding |-> elog]
    ELSE [value |-> Vector(filename_model, filename),
          embedding |->
              IF has_lm
              THEN log_embedding_success(elog, filename,
                       hash_file_lightweight(file_content), collection_name, 1,
                       filename_model)
              ELSE elog]

\* one backend call per text; a failed call leaves None at its position
generate_batch_embeddings(texts, emb_fail) ==
    [i \in 1..Len(texts) |->
        IF i \in emb_fail THEN None ELSE Vector(content_model, texts[i])]

\* a variant that answers None as soon as one backend call has failed
generate_batch_embeddings_with_dedup_none_on_failure(elog, slog, cpoints, filename, file_content, chunks, collection_name, has_lm, force_reprocess, emb_fail, scroll) ==
    LET file_hash == hash_file_lightweight(file_content)
        dedup == has_lm /\ ~force_reprocess
        embeddings == generate_batch_embeddings(chunks, emb_fail)
    IN IF dedup /\ check_embedding_exists(elog, file_hash, collection_name)
       THEN [value |-> PyNone, embedding |-> elog,
             skipped |-> log_skipped_file(slog, filename, file_hash,
                             "already_embedded", "log_file", collection_name),
             backend_called |-> FALSE, scrolled |-> FALSE, found_in |-> "log_file"]
       ELSE [value |-> IF \E i \in 1..Len(embeddings) : embeddings[i] = None
                       THEN PyNone ELSE PyList(embeddings),
             embedding |-> elog, skipped |-> slog, backend_called |-> TRUE,
             scrolled |-> dedup, found_in |-> "nowhere"]

\* a variant that deduplicates whatever force_reprocess says
deduplication_despite_force(has_lm, force_reprocess) == has_lm

\* if self.enable_deduplication and not force_reprocess and self.log_manager
deduplication(has_lm, force_reprocess) == has_lm /\ ~force_reprocess

generate_batch_embeddings_with_dedup(elog, slog, cpoints, filename, file_content, chunks, collection_name, has_lm, force_reprocess, emb_fail, scroll) ==
    LET file_hash == hash_file_lightweight(file_content)
        dedup == deduplication(has_lm, force_reprocess)
        generated ==
            LET embeddings == generate_batch_embeddings(chunks, emb_fail)
            IN [value |-> PyList(embeddings),
                embedding |->
                    IF has_lm
                    THEN log_embedding_success(elog, filename, file_hash,
                             collection_name, Len(chunks), content_model)
                    ELSE elog,
                skipped |-> slog, backend_called |-> TRUE, scrolled |-> dedup,
                found_in |-> "nowhere"]
    IN IF dedup /\ check_embedding_exists(elog, file_hash, collection_name)
       THEN [value |-> PyNone, embedding |-> elog,
             skipped |-> log_skipped_file(slog, filename, file_hash,
                             "already_embedded", "log_file", collection_name),
             backend_called |-> FALSE, scrolled |-> FALSE, found_in |-> "log_file"]
       ELSE IF dedup /\ check_qdrant_exists(cpoints, file_hash, scroll)
       THEN [value |-> PyNone, embedding |-> elog,
             skipped |-> log_skipped_file(slog, filename, file_hash,
                             "already_in_qdrant", "qdrant_collection", collection_name),
             backend_called |-> FALSE, scrolled |-> TRUE,
             found_in |-> "qdrant_collection"]
       ELSE generated

(* ------------------------- embedding backends ------------------------- *)
Min(a, b) == IF a < b THEN a ELSE b

\* generate_embedding of a backend after its retries: the vector of the
\* text, or None where the code appends None for the exception it caught
sequential_embedding(model, text, fails) ==
    IF fails THEN None ELSE Vector(model, text)

\* OllamaBackend.generate_batch_embeddings, from the batch starting at the
\* 1-based position i on. batch_fail: the batch numbers whose /api/embed
\* request raises (or answers a wrong count); text_fail: the positions
\* whose own request raises. requests: the texts carried by each request.
RECURSIVE ollama_batches(_, _, _, _, _, _)
ollama_batches(texts, b, i, batch_fail, text_fail, all_embeddings) ==
    IF i > Len(texts) THEN all_embeddings
    ELSE
      LET batch_texts == SubSeq(texts, i, Min(i + b - 1, Len(texts)))
          batch_num == ((i - 1) \div b) + 1
          batch_embeddings ==
              [k \in 1..Len(batch_texts) |-> Vector(content_model, batch_texts[k])]
          fallback ==
              [k \in 1..Len(batch_texts) |->
                  sequential_embedding(content_model, batch_texts[k],
                                       (i + k - 1) \in text_fail)]
      IN ollama_batches(texts, b, i + b, batch_fail, text_fail,
             IF batch_num \in batch_fail
             THEN [embeddings |-> all_embeddings.embeddings \o fallback,
                   requests |-> all_embeddings.requests \o <<Len(batch_texts)>>
                                    \o [k \in 1..Len(batch_texts) |-> 1]]
             ELSE [embeddings |-> all_embeddings.embeddings \o batch_embeddings,
                   requests |-> all_embeddings.requests \o <<Len(batch_texts)>>])

ollama_generate_batch_embeddings(texts, b, batch_fail, text_fail) ==
    ollama_batches(texts, b, 1, batch_fail, text_fail,
                   [embeddings |-> <<>>, requests |-> <<>>])

\* the batch loop of GeminiBackend.generate_batch_embeddings: it stops at
\* the first batch whose request raises
RECURSIVE gemini_batches(_, _, _, _, _)
gemini_batches(texts, b, i, batch_fail, all_embeddings) ==
    IF i > Len(texts) THEN [all_embeddings EXCEPT !.raised = FALSE]
    ELSE
      LET batch_texts == SubSeq(texts, i, Min(i + b - 1, Len(texts)))
          batch_num == ((i - 1) \div b) + 1
      IN IF batch_num \in batch_fail
         THEN [all_embeddings EXCEPT
                  !.requests = @ \o <<Len(batch_texts)>>, !.raised = TRUE]
         ELSE gemini_batches(texts, b, i + b, batch_fail,
                  [all_embeddings EXCEPT
                      !.embeddings = @ \o [k \in 1..Len(batch_texts) |->
                                              Vector(content_model, batch_texts[k])],
                      !.requests = @ \o <<Len(batch_texts)>>])

\* a variant whose fallback keeps what the batches before the failing one
\* had produced and appends the sequential results after it
gemini_generate_batch_embeddings_keeping_partial(texts, b, batch_fail, text_fail) ==
    LET tried == gemini_batches(texts, b, 1, batch_fail,
                     [embeddings |-> <<>>, requests |-> <<>>, raised |-> FALSE])
    IN IF ~tried.raised
       THEN [embeddings |-> tried.embeddings, requests |-> tried.requests]
       ELSE [embeddings |-> tried.embeddings \o [i \in 1..Len(texts) |->
                                sequential_embedding(content_model, texts[i], i \in text_fail)],
             requests |-> tried.requests \o [i \in 1..Len(texts) |-> 1]]

\* GeminiBackend.generate_batch_embeddings: on an exception of any batch,
\* a fresh list from sequential calls over all the texts
gemini_generate_batch_embeddings(texts, b, batch_fail, text_fail) ==
    LET tried == gemini_batches(texts, b, 1, batch_fail,
                     [embeddings |-> <<>>, requests |-> <<>>, raised |-> FALSE])
    IN IF ~tried.raised
       THEN [embeddings |-> tried.embeddings, requests |-> tried.requests]
       ELSE [embeddings |-> [i \in 1..Len(texts) |->
                                sequential_embedding(content_model, texts[i], i \in text_fail)],
             requests |-> tried.requests \o [i \in 1..Len(texts) |-> 1]]

\* EmbeddingClient.generate_batch_embeddings with the requests it issues:
\* one generate_content_embedding call per text
client_generate_batch_embeddings(texts, text_fail) ==
    [embeddings |-> generate_batch_embeddings(texts, text_fail),
     requests |-> [i \in 1..Len(texts) |-> 1]]

(* ----------------------------- QdrantUploader ------------------------- *)
\* str(uuid.uuid5(NAMESPACE_DNS, s)): a function of the string s alone
uuid5(s) == "uuid5:" \o s

upsert(points, batch) ==
    {p \in points : \A q \in batch : q.id # p.id} \cup batch

filename_point(filename, embedding, file_hash) ==
    [id |-> uuid5(filename), vector |-> embedding, pagecontent |-> filename,
     source |-> filename, metadata_hash |-> file_hash]

upload_filename(points, filename, embedding, file_hash, fails) ==
    IF fails THEN [ok |-> FALSE, points |-> points]
    ELSE [ok |-> TRUE,
          points |-> upsert(points, {filename_point(filename, embedding, file_hash)})]

chunk_point_id(filename, chunk_number) ==
    uuid5(filename \o "_" \o ToString(chunk_number))

chunk_point(filename, chunk, embedding) ==
    [id |-> chunk_point_id(filename, chunk.chunk_number), vector |-> embedding,
     pagecontent |-> chunk.text, metadata_filename |-> filename,
     metadata_page_number |-> chunk.chunk_number,
     metadata_md5_hash |-> chunk.md5_hash]

\* a variant that numbers the records from the collection's size instead
\* of deriving the identifier from the name and the chunk number
upload_content_chunks_sequential_ids(points, filename, chunks, embeddings, bad_batch) ==
    IF Len(chunks) # Len(embeddings)
    THEN [ok |-> FALSE, points |-> points, requests |-> 0]
    ELSE
      LET valid == SelectSeq([i \in 1..Len(chunks) |-> i],
                             LAMBDA i : embeddings[i] # None)
          pts == [j \in 1..Len(valid) |->
                    [chunk_point(filename, chunks[valid[j]], embeddings[valid[j]])
                        EXCEPT !.id = ToString(Cardinality(points) + j)]]
          nbatches == (Len(pts) + batch_size - 1) \div batch_size
          sent == IF bad_batch \in 1..nbatches
                  THEN (bad_batch - 1) * batch_size ELSE Len(pts)
      IN IF Len(pts) = 0
         THEN [ok |-> FALSE, points |-> points, requests |-> 0]
         ELSE [ok |-> ~(bad_batch \in 1..nbatches),
               points |-> upsert(points, {pts[j] : j \in 1..sent}),
               requests |-> IF bad_batch \in 1..nbatches THEN bad_batch ELSE nbatches]

\* a variant that catches the exception of a batch inside the loop, goes
\* on with the later batches and answers True
upload_content_chunks_resuming_after_failure(points, filename, chunks, embeddings, bad_batch) ==
    IF Len(chunks) # Len(embeddings)
    THEN [ok |-> FALSE, points |-> points, requests |-> 0]
    ELSE
      LET valid == SelectSeq([i \in 1..Len(chunks) |-> i],
                             LAMBDA i : embeddings[i] # None)
          pts == [j \in 1..Len(valid) |->
                    chunk_point(filename, chunks[valid[j]], embeddings[valid[j]])]
          nbatches == (Len(pts) + batch_size - 1) \div batch_size
      IN IF Len(pts) = 0
         THEN [ok |-> FALSE, points |-> points, requests |-> 0]
         ELSE [ok |-> TRUE,
               points |-> upsert(points,
                   {pts[j] : j \in {k \in 1..Len(pts) :
                                       ((k - 1) \div batch_size) + 1 # bad_batch}}),
               requests |-> nbatches]

\* bad_batch: the 1-based batch whose upsert request raises, 0 for none
upload_content_chunks(points, filename, chunks, embeddings, bad_batch) ==
    IF Len(chunks) # Len(embeddings)
    THEN [ok |-> FALSE, points |-> points, requests |-> 0]
    ELSE
      LET valid == SelectSeq([i \in 1..Len(chunks) |-> i],
                             LAMBDA i : embeddings[i] # None)
          pts == [j \in 1..Len(valid) |->
                    chunk_point(filename, chunks[valid[j]], embeddings[valid[j]])]
          nbatches == (Len(pts) + batch_size - 1) \div batch_size
          sent == IF bad_batch \in 1..nbatches
                  THEN (bad_batch - 1) * batch_size ELSE Len(pts)
      IN IF Len(pts) = 0
         THEN [ok |-> FALSE, points |-> points, requests |-> 0]
         ELSE [ok |-> ~(bad_batch \in 1..nbatches),
               points |-> upsert(points, {pts[j] : j \in 1..sent}),
               requests |-> IF bad_batch \in 1..nbatches THEN bad_batch ELSE nbatches]

(* --------------------------- R2Client, config ------------------------- *)
\* SKIP_EXTENSIONS defaults to the empty list (config.py:225)
skip_extensions == {}
should_skip_file(file_key) == \E ext \in skip_extensions : file_key.ext = ext

\* get_object: the bytes, or None on a client error or a missing key
download_file_to_memory(files, object_key, fails) ==
    IF fails \/ object_key \notin files THEN None ELSE ContentOf(object_key)

\* the same call on a stored markdown object
download_markdown_to_memory(objs, object_key, fails) ==
    IF fails \/ ~(\E o \in objs : o.key = object_key) THEN None
    ELSE (CHOOSE o \in objs : o.key = object_key).body

(* ------------------------- handler bookkeeping ------------------------ *)
\* what the embedding coordinator did in a handler invocation, and the
\* branch its caller took on the returned value
NoCoord ==
    [invoked |-> FALSE, value |-> PyNone, backend_called |-> FALSE,
     found_in |-> "nowhere", branch |-> "none"]
Coord(ce, branch) ==
    [invoked |-> TRUE, value |-> ce.value, backend_called |-> ce.backend_called,
     found_in |-> ce.found_in, branch |-> branch]
\* the result of a handler: the new persistent state, the returned value
\* ("True", "False", or "raised" when an exception leaves the handler),
\* the external requests made, the coordinator record
Done(st, ret, calls, coord) ==
    [st |-> st, ret |-> ret, calls |-> calls, coord |-> coord]
Failed(st, filename, file_hash, error, stage, calls, coord) ==
    Done([st EXCEPT !.failed = add_failed_entry(@, filename, file_hash, error, stage)],
         "False", calls, coord)
Times(n, x) == [i \in 1..n |-> x]
CoordCalls(ce) ==
    (IF ce.scrolled THEN <<"qdrant.scroll">> ELSE <<>>)
        \o (IF ce.backend_called THEN <<"ollama.embed_content">> ELSE <<>>)
Texts(chunks) == [i \in 1..Len(chunks) |-> chunks[i].text]

(* -------------------------- IngestionPipeline ------------------------- *)
\* IngestionPipeline.__init__ builds its EmbeddingClient without a
\* log_manager; FailedFileRetry.__init__ passes one
pipeline_has_log_manager == FALSE
retry_has_log_manager == TRUE

\* env: the collaborators' behaviour during this invocation
\*   fail      the stage whose request fails ("none" for no failure)
\*   emb_fail  the chunk positions whose embedding request fails
\*   bad_batch the content upsert batch that raises (0 for none)
process_file(st, files, file_key, force_reprocess, env) ==
    LET filename == PathName(file_key)
        file_content == download_file_to_memory(files, file_key, env.fail = "download")
        c1 == <<"r2.get">>
    IN
    IF should_skip_file(file_key) THEN Done(st, "True", <<>>, NoCoord)
    ELSE IF file_content = None
    \* raise Exception("Failed to download file"); the handler then reads
    \* file_hash, which is not yet bound: UnboundLocalError leaves process_file
    THEN Done(st, "raised", c1, NoCoord)
    ELSE
    LET file_hash == hash_file(file_content) IN
    IF is_uploaded(st.upload, file_hash) THEN Done(st, "True", c1, NoCoord)
    ELSE
    LET markdown == convert_from_memory(file_content, filename, env.fail = "docling")
        c2 == Append(c1, "docling.convert")
    IN
    IF markdown = None
    THEN Failed(st, filename, file_hash, "Conversion failed", "docling", c2, NoCoord)
    ELSE
    LET st1 == [st EXCEPT !.conversion = add_conversion_entry(@, filename, file_hash)]
        up == upload_markdown(st1.md, file_key, markdown, env.fail = "r2")
        c3 == Append(c2, "r2.put")
    IN
    IF ~up.ok
    THEN Failed(st1, filename, file_hash, "Markdown upload failed", "r2", c3, NoCoord)
    ELSE
    LET st2 == [st1 EXCEPT !.md = up.objs]
        chunks == chunk_markdown(markdown, filename, env.fail = "chunker")
    IN
    IF Len(chunks) = 0
    THEN Failed(st2, filename, file_hash, "Chunking failed", "chunker", c3, NoCoord)
    ELSE
    LET fe == generate_filename_embedding(st2.embedding, filename, file_content, filename_collection, pipeline_has_log_manager, env.fail = "ollama")
        c4 == Append(c3, "ollama.embed_filename")
    IN
    IF fe.value = None
    THEN Failed(st2, filename, file_hash, "Filename embedding failed", "ollama", c4, NoCoord)
    ELSE
    LET ce == generate_batch_embeddings_with_dedup(fe.embedding, st2.skipped, st2.cpoints, filename, file_content, Texts(chunks), content_collection, pipeline_has_log_manager, force_reprocess, env.emb_fail, "ok")
        st3 == [st2 EXCEPT !.embedding = ce.embedding, !.skipped = ce.skipped]
        c5 == c4 \o CoordCalls(ce)
    IN
    IF IsNone(ce.value)
    THEN Done([st3 EXCEPT !.upload = add_upload_entry(@, filename, file_hash)],
              "True", c5, Coord(ce, "already_embedded"))
    ELSE
    LET uf == upload_filename(st3.fpoints, filename, fe.value, hash_file_lightweight(file_content), env.fail = "qdrant_filename")
        c6 == Append(c5, "qdrant.upsert_filename")
    IN
    IF ~uf.ok
    THEN Failed(st3, filename, file_hash, "Filename upload failed", "qdrant", c6, Coord(ce, "upload"))
    ELSE
    LET uc == upload_content_chunks(st3.cpoints, filename, chunks, ce.value.items, env.bad_batch)
        st4 == [st3 EXCEPT !.fpoints = uf.points, !.cpoints = uc.points]
        c7 == c6 \o Times(uc.requests, "qdrant.upsert_content")
    IN
    IF ~uc.ok
    THEN Failed(st4, filename, file_hash, "Content upload failed", "qdrant", c7, Coord(ce, "upload"))
    ELSE Done([st4 EXCEPT !.upload = add_upload_entry(@, filename, file_hash)],
              "True", c7, Coord(ce, "upload"))

(* ---------------------------- FailedFileRetry ------------------------- *)
MarkdownOrder == <<transform_path(KeyA), transform_path(KeyB)>>

\* the source listing is searched first, by name; then the markdown
\* listing, by stem or name
find_file_in_r2(files, objs, filename) ==
    LET source_files_ == list_files(files, SourceOrder)
        src == SelectSeq(source_files_, LAMBDA k : PathName(k) = filename)
        markdown_files_ == list_files({o.key : o \in objs}, MarkdownOrder)
        md == SelectSeq(markdown_files_,
                 LAMBDA k : k.stem = PathStem(filename) \/ PathName(k) = filename)
    IN IF Len(src) > 0 THEN [found |-> TRUE, key |-> src[1], type |-> "source"]
       ELSE IF Len(md) > 0 THEN [found |-> TRUE, key |-> md[1], type |-> "markdown"]
       ELSE [found |-> FALSE, key |-> KeyA, type |-> "none"]

remove_from_failed_log(failed, file_hash) ==
    SelectSeq(failed, LAMBDA f : DictGet(f, "file_hash", None) # file_hash)

process_source_file(st, files, file_key, filename, file_hash, force_reprocess, env) ==
    LET file_content == download_file_to_memory(files, file_key, env.fail = "download")
        c1 == <<"r2.get">>
    IN
    IF file_content = None
    THEN Failed(st, filename, file_hash, "Failed to download file", "retry_pipeline", c1, NoCoord)
    ELSE
    LET calculated_hash == hash_file(file_content)
        markdown == convert_from_memory(file_content, filename, env.fail = "docling")
        c2 == Append(c1, "docling.convert")
    IN
    IF markdown = None
    THEN Failed(st, filename, calculated_hash, "Conversion failed", "docling", c2, NoCoord)
    ELSE
    LET st1 == [st EXCEPT !.conversion = add_conversion_entry(@, filename, calculated_hash)]
        up == upload_markdown(st1.md, file_key, markdown, env.fail = "r2")
        c3 == Append(c2, "r2.put")
    IN
    IF ~up.ok
    THEN Failed(st1, filename, calculated_hash, "Markdown upload failed", "r2", c3, NoCoord)
    ELSE
    LET st2 == [st1 EXCEPT !.md = up.objs]
        chunks == chunk_markdown(markdown, filename, env.fail = "chunker")
    IN
    IF Len(chunks) = 0
    THEN Failed(st2, filename, calculated_hash, "Chunking failed", "chunker", c3, NoCoord)
    ELSE
    LET fe == generate_filename_embedding(st2.embedding, filename, file_content, filename_collection, retry_has_log_manager, env.fail = "ollama")
        c4 == Append(c3, "ollama.embed_filename")
    IN
    IF fe.value = None
    THEN Failed(st2, filename, calculated_hash, "Filename embedding failed", "ollama", c4, NoCoord)
    ELSE
    LET ce == generate_batch_embeddings_with_dedup(fe.embedding, st2.skipped, st2.cpoints, filename, file_content, Texts(chunks), content_collection, retry_has_log_manager, force_reprocess, env.emb_fail, "ok")
        st3 == [st2 EXCEPT !.embedding = ce.embedding, !.skipped = ce.skipped]
        c5 == c4 \o CoordCalls(ce)
    IN
    IF IsNone(ce.value)
    THEN Done([st3 EXCEPT !.upload = add_upload_entry(@, filename, calculated_hash)],
              "True", c5, Coord(ce, "already_embedded"))
    ELSE
    LET uf == upload_filename(st3.fpoints, filename, fe.value, hash_file_lightweight(file_content), env.fail = "qdrant_filename")
        c6 == Append(c5, "qdrant.upsert_filename")
    IN
    IF ~uf.ok
    THEN Failed(st3, filename, calculated_hash, "Filename upload failed", "qdrant", c6, Coord(ce, "upload"))
    ELSE
    LET uc == upload_content_chunks(st3.cpoints, filename, chunks, ce.value.items, env.bad_batch)
        st4 == [st3 EXCEPT !.fpoints = uf.points, !.cpoints = uc.points]
        c7 == c6 \o Times(uc.requests, "qdrant.upsert_content")
    IN
    IF ~uc.ok
    THEN Failed(st4, filename, calculated_hash, "Content upload failed", "qdrant", c7, Coord(ce, "upload"))
    ELSE Done([st4 EXCEPT !.upload = add_upload_entry(@, filename, calculated_hash)],
              "True", c7, Coord(ce, "upload"))

\* every failure raises, and the handler writes one retry_reprocess entry
\* under the hash that run read from the failure ledger
process_markdown_file(st, file_key, filename, file_hash, force_reprocess, env) ==
    LET markdown_content == download_markdown_to_memory(st.md, file_key, env.fail = "download")
        c1 == <<"r2.get">>
    IN
    IF markdown_content = None
    THEN Failed(st, filename, file_hash, "Failed to download markdown", "retry_reprocess", c1, NoCoord)
    ELSE
    LET markdown == Decode(markdown_content)
        chunks == chunk_markdown(markdown, filename, env.fail = "chunker")
    IN
    IF Len(chunks) = 0
    THEN Failed(st, filename, file_hash, "Chunking failed", "retry_reprocess", c1, NoCoord)
    ELSE
    LET fe == generate_filename_embedding(st.embedding, filename, markdown_content, filename_collection, retry_has_log_manager, env.fail = "ollama")
        c4 == Append(c1, "ollama.embed_filename")
    IN
    IF fe.value = None
    THEN Failed(st, filename, file_hash, "Filename embedding failed", "retry_reprocess", c4, NoCoord)
    ELSE
    LET ce == generate_batch_embeddings_with_dedup(fe.embedding, st.skipped, st.cpoints, filename, markdown_content, Texts(chunks), content_collection, retry_has_log_manager, force_reprocess, env.emb_fail, "ok")
        st3 == [st EXCEPT !.embedding = ce.embedding, !.skipped = ce.skipped]
        c5 == c4 \o CoordCalls(ce)
    IN
    IF IsNone(ce.value)
    THEN Done(st3, "True", c5, Coord(ce, "already_embedded"))
    ELSE IF ~Truthy(ce.value)
    THEN Failed(st3, filename, file_hash, "Content embeddings failed", "retry_reprocess", c5, Coord(ce, "failed"))
    ELSE
    LET uf == upload_filename(st3.fpoints, filename, fe.value, hash_file_lightweight(markdown_content), env.fail = "qdrant_filename")
        c6 == Append(c5, "qdrant.upsert_filename")
    IN
    IF ~uf.ok
    THEN Failed(st3, filename, file_hash, "Filename upload failed", "retry_reprocess", c6, Coord(ce, "upload"))
    ELSE
    LET uc == upload_content_chunks(st3.cpoints, filename, chunks, ce.value.items, env.bad_batch)
        st4 == [st3 EXCEPT !.fpoints = uf.points, !.cpoints = uc.points]
        c7 == c6 \o Times(uc.requests, "qdrant.upsert_content")
    IN
    IF ~uc.ok
    THEN Failed(st4, filename, file_hash, "Content upload failed", "retry_reprocess", c7, Coord(ce, "upload"))
    ELSE Done(st4, "True", c7, Coord(ce, "upload"))

(* ------------------------------- state -------------------------------- *)
VARIABLES
    source_files,      \* keys present under the source prefix
    markdown_files,    \* objects stored under the markdown prefix
    conversion_log, upload_log, failed_log, embedding_log, skipped_log,
    filename_points, content_points,   \* the two Qdrant collections
    force_reprocess,   \* FORCE_REPROCESS of the deployment's environment
    pipeline_status,   \* IngestionPipeline.run: idle, running, done, unhealthy, raised
    new_files,         \* the items run still has to process
    results,           \* run's statistics
    retry_status,      \* FailedFileRetry.run: idle, running, done
    failed_files,      \* the failure entries the retry run still has to visit
    retry_results,
    last,              \* the latest handler invocation
    run_start,         \* what the running pipeline run saw when it started
    runs, faults,
    call,              \* one application of a component's function on its own
    ledger,            \* LogManager's ledgers: backing file, lock, appends returned
    thread             \* the threads sharing one LogManager

vars == <<source_files, markdown_files, conversion_log, upload_log, failed_log,
          embedding_log, skipped_log, filename_points, content_points,
          force_reprocess, pipeline_status, new_files, results, retry_status,
          failed_files, retry_results, last, run_start, runs, faults, call,
          ledger, thread>>

\* the state of the component-level specifications; the runs leave it alone
aux == <<call, ledger, thread>>
\* the state of the runs; the component-level specifications leave it alone
main == <<source_files, markdown_files, conversion_log, upload_log, failed_log,
          embedding_log, skipped_log, filename_points, content_points,
          force_reprocess, pipeline_status, new_files, results, retry_status,
          failed_files, retry_results, last, run_start, runs, faults>>

St ==
    [conversion |-> conversion_log, upload |-> upload_log, failed |-> failed_log,
     embedding |-> embedding_log, skipped |-> skipped_log,
     fpoints |-> filename_points, cpoints |-> content_points,
     md |-> markdown_files]

SetSt(st) ==
    /\ conversion_log' = st.conversion
    /\ upload_log' = st.upload
    /\ failed_log' = st.failed
    /\ embedding_log' = st.embedding
    /\ skipped_log' = st.skipped
    /\ filename_points' = st.fpoints
    /\ content_points' = st.cpoints
    /\ markdown_files' = st.md

NoEnv == [fail |-> "none", emb_fail |-> {}, bad_batch |-> 0]
NoEntry == [filename |-> "", hash |-> "", error |-> "", stage |-> ""]
NoLast ==
    [op |-> "none", filename |-> "", content |-> "", ret |-> "none",
     calls |-> <<>>, coord |-> NoCoord, entry |-> NoEntry,
     was_uploaded |-> FALSE, md_stored |-> FALSE, src_present |-> FALSE,
     downloaded |-> FALSE, emb_logged |-> FALSE, env |-> NoEnv]

(* --------------------------- the environment -------------------------- *)
Stages == {"none", "download", "docling", "r2", "chunker", "ollama", "qdrant_filename"}
AllEnvs ==
    [fail : Stages, emb_fail : SUBSET (1..MaxChunks),
     bad_batch : 0..((MaxChunks + batch_size - 1) \div batch_size)]
Cost(env) ==
    (IF env.fail = "none" THEN 0 ELSE 1) + Cardinality(env.emb_fail)
        + (IF env.bad_batch = 0 THEN 0 ELSE 1)
\* at most one request before the content embedding fails (the handler
\* returns at the first failure), and the whole budget is never exceeded
Envs ==
    {env \in AllEnvs :
        /\ Cost(env) <= MaxFaults
        /\ env.fail \notin {"none", "qdrant_filename"} => env.emb_fail = {} /\ env.bad_batch = 0
        /\ env.fail = "qdrant_filename" => env.bad_batch = 0}
InCalls(calls, c) == \E i \in 1..Len(calls) : calls[i] = c
CountCalls(calls, c) == Cardinality({i \in 1..Len(calls) : calls[i] = c})
\* a failure is injected only into a request the handler makes
Reached(env, r, nchunks) ==
    /\ env.fail = "docling" => InCalls(r.calls, "docling.convert")
    /\ env.fail = "r2" => InCalls(r.calls, "r2.put")
    /\ env.fail = "chunker" => r.ret = "False" /\ ~InCalls(r.calls, "ollama.embed_filename")
    /\ env.fail = "ollama" => InCalls(r.calls, "ollama.embed_filename")
    /\ env.fail = "qdrant_filename" => InCalls(r.calls, "qdrant.upsert_filename")
    /\ env.emb_fail # {} => InCalls(r.calls, "ollama.embed_content")
    /\ env.emb_fail \subseteq 1..nchunks
    /\ env.bad_batch # 0 => CountCalls(r.calls, "qdrant.upsert_content") >= env.bad_batch

\* the requests of the undisturbed invocation r0 bound the requests a
\* disturbed one can make: the environments worth trying on it
Candidates(r0, nchunks, spent) ==
    {env \in Envs :
        /\ spent + Cost(env) <= MaxFaults
        /\ env.fail = "docling" => InCalls(r0.calls, "docling.convert")
        /\ env.fail = "r2" => InCalls(r0.calls, "r2.put")
        /\ env.fail = "ollama" => InCalls(r0.calls, "ollama.embed_filename")
        /\ env.fail = "qdrant_filename" => InCalls(r0.calls, "qdrant.upsert_filename")
        /\ env.emb_fail # {} => InCalls(r0.calls, "ollama.embed_content")
        /\ env.emb_fail \subseteq 1..nchunks
        /\ env.bad_batch # 0 => InCalls(r0.calls, "qdrant.upsert_content")}

NChunksOfName(filename) ==
    NumChunks(MarkdownOf(ContentOf(CHOOSE k \in SourceKeys : PathName(k) = filename)))

NoResults ==
    [total_files |-> 0, new_files |-> 0, processed |-> 0, failed |-> 0, skipped |-> 0]
NoRetryResults ==
    [total_files |-> 0, processed |-> 0, still_failed |-> 0, not_found |-> 0]
\* IngestionPipeline.health_check: one answer per collaborator
Services == {"docling", "ollama", "qdrant"}
AllHealthy == [s \in Services |-> TRUE]
NoRunStart == [files |-> <<>>, uploaded |-> {}, skipped_len |-> 0, health |-> AllHealthy]

\* a variant that leaves the vector store's answer out
all_but_qdrant(health) == health["docling"] /\ health["ollama"]

\* all(health.values())
all(health) == \A s \in DOMAIN health : health[s]

\* the persisted state and the two scripts before any run
Constructed ==
    /\ source_files = SourceKeys
    /\ markdown_files = {}
    /\ conversion_log = <<>> /\ upload_log = <<>> /\ failed_log = <<>>
    /\ embedding_log = <<>> /\ skipped_log = <<>>
    /\ filename_points = {} /\ content_points = {}
    \* os.getenv('FORCE_REPROCESS', 'false'): the deployment keeps the default
    /\ force_reprocess = FALSE
    /\ pipeline_status = "idle" /\ new_files = <<>>
    /\ results = NoResults
    /\ retry_status = "idle" /\ failed_files = <<>>
    /\ retry_results = NoRetryResults
    /\ last = NoLast
    /\ run_start = NoRunStart
    /\ runs = 0 /\ faults = 0

NoCall ==
    [fn |-> "none", texts |-> <<>>, b |-> 1, batch_fail |-> {}, text_fail |-> {},
     embeddings |-> <<>>, requests |-> <<>>]

\* no thread pool: the scripts call LogManager from their one thread
NoLedgers == <<>>
NoThreads == <<>>

Init == Constructed /\ call = NoCall /\ ledger = NoLedgers /\ thread = NoThreads

Quiet == pipeline_status # "running" /\ retry_status # "running"

(* ------------------------- IngestionPipeline.run ---------------------- *)
\* run() up to the item loop: health check, listing, the etag filter
run_until_item_loop(outcomes) ==
    /\ Quiet
    /\ \E health \in outcomes :
        LET healthy == all(health)
            files == list_files(source_files, SourceOrder)
            processed_hashes == get_processed_hashes(conversion_log, upload_log)
            fresh == SelectSeq(files, LAMBDA k : ETag(k) \notin processed_hashes)
        IN IF ~healthy
           THEN /\ pipeline_status' = "unhealthy"
                /\ UNCHANGED force_reprocess
                /\ new_files' = <<>>
                /\ results' = NoResults
                /\ run_start' = [NoRunStart EXCEPT !.health = health]
                /\ UNCHANGED runs
           ELSE /\ Len(fresh) > 0 => runs < MaxRuns
                /\ runs' = IF Len(fresh) > 0 THEN runs + 1 ELSE runs
                /\ pipeline_status' = "running"
                /\ UNCHANGED force_reprocess
                /\ new_files' = fresh
                /\ results' = [total_files |-> Len(files), new_files |-> Len(fresh),
                               processed |-> 0, failed |-> 0,
                               skipped |-> Len(files) - Len(fresh)]
                /\ run_start' = [files |-> files,
                                 uploaded |-> {DictGet(upload_log[i], "hash", None) : i \in 1..Len(upload_log)},
                                 skipped_len |-> Len(skipped_log),
                                 health |-> health]
    \* an earlier retry process has exited; only the persisted state remains
    /\ retry_status' = "idle" /\ failed_files' = <<>>
    /\ retry_results' = NoRetryResults /\ last' = NoLast
    /\ UNCHANGED <<source_files, markdown_files, conversion_log, upload_log,
                   failed_log, embedding_log, skipped_log, filename_points,
                   content_points, faults>>
    /\ UNCHANGED aux

\* for what the runs do afterwards only the verdict matters: every
\* collaborator healthy, or none
PipelineStart ==
    /\ Quiet
    /\ run_until_item_loop({AllHealthy, [s \in Services |-> FALSE]})

\* one iteration of the item loop: process_file on the next item
PipelineStep ==
    /\ pipeline_status = "running" /\ Len(new_files) > 0
    /\ LET file_key == Head(new_files)
           r0 == process_file(St, source_files, file_key, force_reprocess, NoEnv)
       IN \E env \in Candidates(r0, NChunksOfName(PathName(file_key)), faults) :
        LET r == IF env = NoEnv THEN r0
                 ELSE process_file(St, source_files, file_key, force_reprocess, env)
        IN /\ faults + Cost(env) <= MaxFaults
           /\ Reached(env, r, NChunksOfName(PathName(file_key)))
           /\ faults' = faults + Cost(env)
           /\ SetSt(r.st)
           /\ last' = [NoLast EXCEPT !.op = "process_file",
                          !.filename = PathName(file_key),
                          !.content = ContentOf(file_key),
                          !.ret = r.ret, !.calls = r.calls, !.coord = r.coord,
                          !.env = env,
                          !.was_uploaded = is_uploaded(upload_log, hash_file(ContentOf(file_key))),
                          !.src_present = file_key \in source_files,
                          !.downloaded = download_file_to_memory(source_files, file_key, env.fail = "download") # None]
           /\ IF r.ret = "raised"
              \* the exception leaves run(): no later item, no statistics
              THEN /\ pipeline_status' = "raised"
                   /\ UNCHANGED force_reprocess
                   /\ UNCHANGED <<new_files, results>>
              ELSE /\ new_files' = Tail(new_files)
                   /\ results' = IF r.ret = "True"
                                 THEN [results EXCEPT !.processed = @ + 1]
                                 ELSE [results EXCEPT !.failed = @ + 1]
                   /\ UNCHANGED <<pipeline_status, force_reprocess>>
    /\ UNCHANGED <<source_files, retry_status, failed_files,
                   retry_results, run_start, runs>>
    /\ UNCHANGED aux

\* the final statistics
PipelineFinish ==
    /\ pipeline_status = "running" /\ Len(new_files) = 0
    /\ pipeline_status' = "done"
    /\ UNCHANGED force_reprocess
    /\ UNCHANGED <<source_files, markdown_files, conversion_log, upload_log,
                   failed_log, embedding_log, skipped_log, filename_points,
                   content_points, new_files, results,
                   retry_status, failed_files, retry_results, last, run_start,
                   runs, faults>>
    /\ UNCHANGED aux

(* -------------------------- FailedFileRetry.run ----------------------- *)
load_failed_files(failed) == failed

\* run() up to the loop over the failure entries it loaded
RetryStart ==
    /\ Quiet
    /\ LET loaded == load_failed_files(failed_log)
       IN /\ Len(loaded) > 0 => runs < MaxRuns
          /\ runs' = IF Len(loaded) > 0 THEN runs + 1 ELSE runs
          /\ UNCHANGED force_reprocess
          /\ failed_files' = loaded
          /\ retry_status' = IF Len(loaded) = 0 THEN "done" ELSE "running"
          /\ retry_results' = [NoRetryResults EXCEPT !.total_files = Len(loaded)]
    \* an earlier pipeline process has exited; only the persisted state remains
    /\ pipeline_status' = "idle" /\ new_files' = <<>> /\ results' = NoResults
    /\ run_start' = NoRunStart /\ last' = NoLast
    /\ UNCHANGED <<source_files, markdown_files, conversion_log, upload_log,
                   failed_log, embedding_log, skipped_log, filename_points,
                   content_points, faults>>
    /\ UNCHANGED aux

\* one iteration: locate the item, reprocess it, drop its entry on success
RetryStep ==
    /\ retry_status = "running" /\ Len(failed_files) > 0
    /\ LET failed_entry == Head(failed_files)
           filename == DictGet(failed_entry, "filename", "unknown")
           file_hash == DictGet(failed_entry, "file_hash", "")
           file_info == find_file_in_r2(source_files, markdown_files, filename)
           r0 == IF ~file_info.found THEN Done(St, "not_found", <<>>, NoCoord)
                 ELSE IF file_info.type = "source"
                 THEN process_source_file(St, source_files, file_info.key, filename, file_hash, force_reprocess, NoEnv)
                 ELSE process_markdown_file(St, file_info.key, filename, file_hash, force_reprocess, NoEnv)
       IN \E env \in Candidates(r0, NChunksOfName(filename), faults) :
        LET r == IF env = NoEnv THEN r0 ELSE IF ~file_info.found THEN Done(St, "not_found", <<>>, NoCoord)
                 ELSE IF file_info.type = "source"
                 THEN process_source_file(St, source_files, file_info.key, filename, file_hash, force_reprocess, env)
                 ELSE process_markdown_file(St, file_info.key, filename, file_hash, force_reprocess, env)
            success == r.ret = "True"
        IN /\ faults + Cost(env) <= MaxFaults
           /\ ~file_info.found => env = NoEnv
           /\ Reached(env, r, NChunksOfName(filename))
           /\ faults' = faults + Cost(env)
           /\ SetSt(IF success
                    THEN [r.st EXCEPT !.failed = remove_from_failed_log(@, file_hash)]
                    ELSE r.st)
           /\ last' = [NoLast EXCEPT
                          !.op = IF ~file_info.found THEN "not_found"
                                 ELSE IF file_info.type = "source" THEN "process_source_file"
                                 ELSE "process_markdown_file",
                          !.filename = filename,
                          !.ret = r.ret, !.calls = r.calls, !.coord = r.coord,
                          !.env = env,
                          !.entry = failed_entry,
                          !.md_stored = \E o \in markdown_files : o.key.stem = PathStem(filename),
                          !.src_present = \E k \in source_files : PathName(k) = filename,
                          !.emb_logged = \E i \in 1..Len(embedding_log) :
                              /\ embedding_log[i].filename = filename
                              /\ embedding_log[i].collection_name = content_collection]
           /\ retry_results' =
                  IF ~file_info.found THEN [retry_results EXCEPT !.not_found = @ + 1]
                  ELSE IF success THEN [retry_results EXCEPT !.processed = @ + 1]
                  ELSE [retry_results EXCEPT !.still_failed = @ + 1]
           /\ failed_files' = Tail(failed_files)
    /\ UNCHANGED <<source_files, force_reprocess, pipeline_status, new_files,
                   results, retry_status, run_start, runs>>
    /\ UNCHANGED aux

RetryFinish ==
    /\ retry_status = "running" /\ Len(failed_files) = 0
    /\ retry_status' = "done"
    /\ UNCHANGED force_reprocess
    /\ UNCHANGED <<source_files, markdown_files, conversion_log, upload_log,
                   failed_log, embedding_log, skipped_log, filename_points,
                   content_points, pipeline_status, new_files,
                   results, failed_files, retry_results, last, run_start,
                   runs, faults>>
    /\ UNCHANGED aux

(* ------------------------------ environment --------------------------- *)
\* an operator removes a raw source object from the bucket between runs
DeleteSource ==
    /\ Quiet /\ faults < MaxFaults
    /\ faults' = faults + 1
    /\ \E k \in source_files : source_files' = source_files \ {k}
    /\ UNCHANGED <<markdown_files, conversion_log, upload_log, failed_log,
                   embedding_log, skipped_log, filename_points, content_points,
                   force_reprocess, pipeline_status, new_files, results,
                   retry_status, failed_files, retry_results, last, run_start,
                   runs>>
    /\ UNCHANGED aux

Next ==
    \/ PipelineStart
    \/ PipelineStep
    \/ PipelineFinish
    \/ RetryStart
    \/ RetryStep
    \/ RetryFinish
    \/ DeleteSource

Spec == Init /\ [][Next]_vars

(* ---------------- IngestionPipeline.run, every health answer --------- *)
\* run() up to the item loop under every combination of the three
\* collaborators' health answers
HealthCheckedStart ==
    /\ Quiet
    /\ run_until_item_loop([Services -> BOOLEAN])

NextRun == HealthCheckedStart \/ PipelineStep \/ PipelineFinish

SpecRun == Init /\ [][NextRun]_vars

(* ----------------------- DoclingClient._poll_status ------------------- *)
\* the statuses the loop waits on
WaitingStatuses == {"processing", "pending", "queued"}

\* time.time() - start_time is only ever compared with self.timeout: every
\* value beyond the timeout behaves alike
Elapse(elapsed, interval, timeout) == Min(elapsed + interval, timeout + 1)

PollInputs ==
    [fn : {"_poll_status"}, timeout : 1..MaxTimeout, poll_interval : 1..MaxPollInterval,
     elapsed : {0}, polls : {0}, status : {"none"}, pc : {"polling"}, error : {"none"}]

InitPoll ==
    Constructed /\ call \in PollInputs /\ ledger = NoLedgers /\ thread = NoThreads

\* requests.get(url): one more status request; the requests are counted
\* modulo 2, the count itself being unbounded
Polled(status) == [call EXCEPT !.status = status, !.polls = (@ + 1) % 2]

\* status == 'completed': return data
PollCompleted ==
    /\ call.fn = "_poll_status" /\ call.pc = "polling"
    /\ call' = [Polled("completed") EXCEPT !.pc = "returned"]
    /\ UNCHANGED <<main, ledger, thread>>

\* status == 'failed': raise Exception
PollFailed ==
    /\ call.fn = "_poll_status" /\ call.pc = "polling"
    /\ call' = [Polled("failed") EXCEPT !.pc = "raised", !.error = "failed"]
    /\ UNCHANGED <<main, ledger, thread>>

\* status in ['processing', 'pending', 'queued']: the deadline is checked,
\* then time.sleep(self.poll_interval)
PollWaiting ==
    /\ call.fn = "_poll_status" /\ call.pc = "polling"
    /\ \E status \in WaitingStatuses :
        call' = IF call.elapsed > call.timeout
                THEN [Polled(status) EXCEPT !.pc = "raised", !.error = "timeout"]
                ELSE [Polled(status) EXCEPT
                         !.elapsed = Elapse(@, call.poll_interval, call.timeout)]
    /\ UNCHANGED <<main, ledger, thread>>

\* any other status (a missing one reads as ''): a warning, then
\* time.sleep(self.poll_interval)
PollUnknown ==
    /\ call.fn = "_poll_status" /\ call.pc = "polling"
    /\ call' = [Polled("unknown") EXCEPT
                   !.elapsed = Elapse(@, call.poll_interval, call.timeout)]
    /\ UNCHANGED <<main, ledger, thread>>

\* requests.get or raise_for_status raises: the exception is re-raised
PollRequestError ==
    /\ call.fn = "_poll_status" /\ call.pc = "polling"
    /\ call' = [Polled("none") EXCEPT !.pc = "raised", !.error = "request"]
    /\ UNCHANGED <<main, ledger, thread>>

NextPoll ==
    \/ PollCompleted
    \/ PollFailed
    \/ PollWaiting
    \/ PollUnknown
    \/ PollRequestError

\* the while True loop keeps iterating until it returns or raises
SpecPoll == InitPoll /\ [][NextPoll]_vars /\ WF_vars(NextPoll)

(* ------------------- attempts of one outgoing call -------------------- *)
\* @retry(stop=stop_after_attempt(3), ...)
stop_after_attempt == 3

\* what one attempt meets: success, a network or service error
\* (requests.exceptions.RequestException), or a response that fails
\* validation (ValueError)
AttemptOutcomes == {"ok", "transient", "validation"}

\* tenacity's retry with its default predicate: any exception leads to a
\* further attempt until one succeeds or the stop count is reached
retry(outcomes) ==
    LET succeeded == {i \in 1..stop_after_attempt : outcomes[i] = "ok"}
    IN IF succeeded = {}
       THEN [attempts |-> stop_after_attempt, ok |-> FALSE]
       ELSE [attempts |-> CHOOSE i \in succeeded : \A j \in succeeded : i <= j,
             ok |-> TRUE]

\* a call made inside a plain try/except
once(outcomes) == [attempts |-> 1, ok |-> outcomes[1] = "ok"]

AttemptInputs ==
    [fn : {"attempt_input"}, outcomes : [1..stop_after_attempt -> AttemptOutcomes],
     attempts : {0}, ok : {FALSE}]

InitAttempts ==
    Constructed /\ call \in AttemptInputs /\ ledger = NoLedgers /\ thread = NoThreads

Attempted(fn, r) == [call EXCEPT !.fn = fn, !.attempts = r.attempts, !.ok = r.ok]

\* DoclingClient.convert_from_memory: requests.post and the task_id test
\* inside the method's own try, without a retry decorator
ConvertSubmit ==
    /\ call.fn = "attempt_input"
    /\ call' = Attempted("convert_from_memory", once(call.outcomes))
    /\ UNCHANGED <<main, ledger, thread>>

\* DoclingClient._post_file, decorated with @retry
PostFile ==
    /\ call.fn = "attempt_input"
    /\ call' = Attempted("_post_file", retry(call.outcomes))
    /\ UNCHANGED <<main, ledger, thread>>

\* EmbeddingClient._generate_embedding, decorated with @retry
GenerateEmbedding ==
    /\ call.fn = "attempt_input"
    /\ call' = Attempted("_generate_embedding", retry(call.outcomes))
    /\ UNCHANGED <<main, ledger, thread>>

\* QdrantUploader.upload_filename: client.upsert inside the method's try
UploadFilename ==
    /\ call.fn = "attempt_input"
    /\ call' = Attempted("upload_filename", once(call.outcomes))
    /\ UNCHANGED <<main, ledger, thread>>

NextAttempts ==
    \/ ConvertSubmit
    \/ PostFile
    \/ GenerateEmbedding
    \/ UploadFilename

SpecAttempts == InitAttempts /\ [][NextAttempts]_vars

(* ---------------- SemanticChunker._detect_element_type ---------------- *)
\* what the tests of _detect_element_type can see of a chunk's text:
\*   pipe       '|' in text            rule      '---' in text
\*   pipe_dash  '|-' in text           image     a match of ![..](..)
\*   fence      '```' in text          indented  the text starts with four spaces
\*   bullet     a line starting with -, * or + and a space
\*   numbered   a line starting with digits, a dot and a space
ChunkTexts ==
    {t \in [pipe : BOOLEAN, rule : BOOLEAN, pipe_dash : BOOLEAN, image : BOOLEAN,
            fence : BOOLEAN, indented : BOOLEAN, bullet : BOOLEAN, numbered : BOOLEAN] :
        t.pipe_dash => t.pipe}

\* str.strip(): the leading (and trailing) whitespace is gone
strip(text) == [text EXCEPT !.indented = FALSE]
\* str.startswith('    ')
startswith_four_spaces(text) == text.indented

detect_element_type(text) ==
    IF text.pipe /\ (text.rule \/ text.pipe_dash) THEN "Table"
    ELSE IF text.image THEN "Image"
    ELSE IF text.fence \/ startswith_four_spaces(strip(text)) THEN "Code"
    ELSE IF text.bullet \/ text.numbered THEN "List"
    ELSE "Text"

DetectInputs == [fn : {"detect_input"}, text : ChunkTexts, element_type : {"none"}]

InitDetect ==
    Constructed /\ call \in DetectInputs /\ ledger = NoLedgers /\ thread = NoThreads

Detect ==
    /\ call.fn = "detect_input"
    /\ call' = [call EXCEPT !.fn = "_detect_element_type",
                            !.element_type = detect_element_type(call.text)]
    /\ UNCHANGED <<main, ledger, thread>>

NextDetect == Detect

SpecDetect == InitDetect /\ [][NextDetect]_vars

(* -------------------- SemanticChunker.chunk_markdown ------------------ *)
\* chunk_size_chars = chunk_size_tokens * 4
chars_per_token == 4

\* a document is the sequence of its paragraphs' token counts; a piece of
\* it is the range [from, to] of the tokens it holds
\* SemanticChunker._count_tokens, the splitter's length_function
count_tokens(piece) == piece.to - piece.from + 1
PieceText(piece) == "tokens " \o ToString(piece.from) \o ".." \o ToString(piece.to)

\* the splitter descends to a finer separator only for a segment longer
\* than chunk_size: such a paragraph is cut into segments of chunk_size
RECURSIVE Segments(_, _, _)
Segments(doc, k, chunk_size) ==
    IF k > Len(doc) THEN <<>>
    ELSE LET p == doc[k]
             cut == [j \in 1..((p + chunk_size - 1) \div chunk_size) |->
                        IF j * chunk_size <= p THEN chunk_size
                        ELSE p - (j - 1) * chunk_size]
         IN cut \o Segments(doc, k + 1, chunk_size)

\* ... and merges neighbouring segments while the sum stays within chunk_size
RECURSIVE Merge(_, _, _, _, _)
Merge(segs, i, from, to, chunk_size) ==
    IF i > Len(segs)
    THEN IF to >= from THEN <<[from |-> from, to |-> to]>> ELSE <<>>
    ELSE IF (to - from + 1) + segs[i] <= chunk_size
    THEN Merge(segs, i + 1, from, to + segs[i], chunk_size)
    ELSE <<[from |-> from, to |-> to]>>
             \o Merge(segs, i + 1, to + 1, to + segs[i], chunk_size)

\* RecursiveCharacterTextSplitter(chunk_size=chunk_size_chars,
\* length_function=self._count_tokens, separators=[..., ""]).split_text
split_text(doc, chunk_size) ==
    Merge(Segments(doc, 1, chunk_size), 1, 1, 0, chunk_size)

\* SemanticChunker.__init__: the chunk_size handed to the splitter
text_splitter_chunk_size(chunk_size_tokens) == chunk_size_tokens * chars_per_token

Documents ==
    UNION {[1..k -> 1..MaxParagraphTokens] : k \in 1..MaxParagraphs}

ChunkInputs ==
    [fn : {"chunk_input"}, doc : Documents, chunk_size_tokens : 1..MaxChunkSize,
     text_chunks : {<<>>}, chunks : {<<>>}, again : {<<>>}]

InitChunk ==
    Constructed /\ call \in ChunkInputs /\ ledger = NoLedgers /\ thread = NoThreads

\* chunk_markdown on the document
ChunkDocument ==
    /\ call.fn = "chunk_input"
    /\ LET text_chunks == split_text(call.doc,
                              text_splitter_chunk_size(call.chunk_size_tokens))
       IN call' = [call EXCEPT !.fn = "chunk_markdown",
                      !.text_chunks = text_chunks,
                      !.chunks = enumerate_chunks(
                          [i \in 1..Len(text_chunks) |-> PieceText(text_chunks[i])],
                          "a.pdf")]
    /\ UNCHANGED <<main, ledger, thread>>

\* chunk_markdown on the same document by the same chunker once more
ChunkAgain ==
    /\ call.fn = "chunk_markdown"
    /\ LET text_chunks == split_text(call.doc,
                              text_splitter_chunk_size(call.chunk_size_tokens))
       IN call' = [call EXCEPT !.fn = "chunk_markdown_again",
                      !.again = enumerate_chunks(
                          [i \in 1..Len(text_chunks) |-> PieceText(text_chunks[i])],
                          "a.pdf")]
    /\ UNCHANGED <<main, ledger, thread>>

NextChunk == ChunkDocument \/ ChunkAgain

SpecChunk == InitChunk /\ [][NextChunk]_vars

(* ------------------- generate_batch_embeddings alone ------------------ *)
InputTexts(n) == [i \in 1..n |-> "text" \o ToString(i)]
NBatches(n, b) == (n + b - 1) \div b

\* every list of up to MaxTexts texts, every batch limit up to
\* MaxBatchLimit and every pattern of failing batch and per-text requests
EmbedInputs ==
    {[NoCall EXCEPT !.fn = "input", !.texts = InputTexts(n), !.b = b,
                    !.batch_fail = bf, !.text_fail = tf] :
        <<n, b, bf, tf>> \in
            {q \in (0..MaxTexts) \X (1..MaxBatchLimit)
                      \X (SUBSET (1..MaxTexts)) \X (SUBSET (1..MaxTexts)) :
                /\ q[3] \subseteq 1..NBatches(q[1], q[2])
                /\ q[4] \subseteq 1..q[1]}}

InitEmbed ==
    Constructed /\ call \in EmbedInputs /\ ledger = NoLedgers /\ thread = NoThreads

Answered(fn, r) ==
    [call EXCEPT !.fn = fn, !.embeddings = r.embeddings, !.requests = r.requests]

OllamaBatch ==
    /\ call.fn = "input"
    /\ call' = Answered("ollama", ollama_generate_batch_embeddings(
                     call.texts, call.b, call.batch_fail, call.text_fail))
    /\ UNCHANGED <<main, ledger, thread>>

GeminiBatch ==
    /\ call.fn = "input"
    /\ call' = Answered("gemini", gemini_generate_batch_embeddings(
                     call.texts, call.b, call.batch_fail, call.text_fail))
    /\ UNCHANGED <<main, ledger, thread>>

\* the client has no batch limit and no batch request
ClientBatch ==
    /\ call.fn = "input" /\ call.batch_fail = {}
    /\ call' = Answered("client", client_generate_batch_embeddings(
                     call.texts, call.text_fail))
    /\ UNCHANGED <<main, ledger, thread>>

NextEmbed == OllamaBatch \/ GeminiBatch \/ ClientBatch

SpecEmbed == InitEmbed /\ [][NextEmbed]_vars

(* ------------- generate_batch_embeddings_with_dedup alone ------------- *)
DedupFile == [filename |-> "a.pdf", content |-> "A", chunks |-> <<"c1", "c2">>]
DedupHash == hash_file_lightweight(DedupFile.content)

\* the embedding ledger: empty, holding the file's entry for the content
\* collection, or holding its entry for the filename collection only
DedupLogs ==
    {<<>>,
     log_embedding_success(<<>>, DedupFile.filename, DedupHash, content_collection, 2, content_model),
     log_embedding_success(<<>>, DedupFile.filename, DedupHash, filename_collection, 1, filename_model)}

\* the content collection: empty, holding a record whose metadata.md5_hash
\* is the file's hash, or holding a record of another hash
DedupPoints ==
    {{},
     {[chunk_point(DedupFile.filename, [chunk_number |-> 1, text |-> "c1", md5_hash |-> hash_text("c1")], Vector(content_model, "c1"))
          EXCEPT !.metadata_md5_hash = DedupHash]},
     {chunk_point(DedupFile.filename, [chunk_number |-> 1, text |-> "c1", md5_hash |-> hash_text("c1")], Vector(content_model, "c1"))}}

ScrollOutcomes == {"ok", "index_missing", "error"}

NotCalled ==
    [value |-> PyNone, embedding |-> <<>>, skipped |-> <<>>,
     backend_called |-> FALSE, scrolled |-> FALSE, found_in |-> "nowhere"]

DedupInputs ==
    [fn : {"dedup_input"}, elog : DedupLogs, cpoints : DedupPoints,
     scroll : ScrollOutcomes, has_lm : BOOLEAN, force : BOOLEAN,
     emb_fail : SUBSET (1..Len(DedupFile.chunks)), result : {NotCalled}]

InitDedup ==
    Constructed /\ call \in DedupInputs /\ ledger = NoLedgers /\ thread = NoThreads

Coordinate ==
    /\ call.fn = "dedup_input"
    /\ call' = [call EXCEPT !.fn = "dedup",
                   !.result = generate_batch_embeddings_with_dedup(
                       call.elog, <<>>, call.cpoints, DedupFile.filename,
                       DedupFile.content, DedupFile.chunks, content_collection,
                       call.has_lm, call.force, call.emb_fail, call.scroll)]
    /\ UNCHANGED <<main, ledger, thread>>

NextDedup == Coordinate

SpecDedup == InitDedup /\ [][NextDedup]_vars

(* ------------- one LogManager shared by concurrent threads ------------ *)
Ledgers == {"upload", "failed"}
Threads == {"T1", "T2"}
NoThread == "none"

\* what open() and json.load find in a ledger's backing file: a JSON list,
\* text that is not JSON, bytes that are not text, or no file
FileKinds == {"list", "invalid_json", "invalid_utf8", "missing"}
Unparseable == FileKinds \ {"list"}

\* LogManager._load_log: JSONDecodeError and FileNotFoundError give [], any
\* other exception of open() or json.load leaves the function
load_log(file) ==
    IF file.kind = "list" THEN [raised |-> FALSE, entries |-> file.entries]
    ELSE IF file.kind \in {"invalid_json", "missing"}
    THEN [raised |-> FALSE, entries |-> <<>>]
    ELSE [raised |-> TRUE, entries |-> <<>>]

\* LogManager._save_log
save_log(entries) == [kind |-> "list", entries |-> entries]

\* a variant in which every call takes a lock of its own
can_acquire_own_lock(lock) == TRUE

\* with self._X_lock: the ledger's one Lock is free
can_acquire(lock) == lock = NoThread

EntryName(t, n) == t \o "-" \o ToString(n)
EntryHash(t, n) == "md5:" \o EntryName(t, n)

Idle ==
    [pc |-> "idle", op |-> "none", ledger |-> "none", entries |-> <<>>,
     seen |-> "none", ret |-> "none", n |-> 0]

LedgerFiles ==
    {[kind |-> "list", entries |-> <<>>],
     [kind |-> "list", entries |-> add_upload_entry(<<>>, "old", "md5:old")]}
        \cup {[kind |-> k, entries |-> <<>>] : k \in Unparseable}

InitLedger ==
    /\ Constructed /\ call = NoCall
    /\ ledger \in {[l \in Ledgers |->
                      [file |-> f[l], lock |-> NoThread, appended |-> 0,
                       before |-> Len(load_log(f[l]).entries)]] :
                   f \in [Ledgers -> LedgerFiles]}
    /\ thread = [t \in Threads |-> Idle]

\* a thread enters add_upload_entry / add_failed_entry ("append") or
\* is_uploaded ("check") and takes the ledger's lock
Acquire(t) ==
    /\ thread[t].pc = "idle" /\ thread[t].n < MaxAppends
    /\ \E l \in Ledgers, op \in {"append", "check"} :
        /\ op = "check" => l = "upload"
        /\ can_acquire(ledger[l].lock)
        /\ ledger' = [ledger EXCEPT ![l].lock = t]
        /\ thread' = [thread EXCEPT ![t] =
               [Idle EXCEPT !.pc = "locked", !.op = op, !.ledger = l,
                            !.n = thread[t].n + 1]]
    /\ UNCHANGED <<main, call>>

\* entries = self._load_log(path); a reader answers from them and leaves
\* the with-block, an exception leaves it too
Load(t) ==
    /\ thread[t].pc = "locked"
    /\ LET l == thread[t].ledger
           file == ledger[l].file
           loaded == load_log(file)
       IN IF loaded.raised
          THEN /\ ledger' = [ledger EXCEPT ![l].lock = NoThread]
               /\ thread' = [thread EXCEPT ![t].pc = "idle", ![t].seen = file.kind,
                      \* the appenders catch Exception and return False
                      ![t].ret = IF thread[t].op = "append" THEN "False" ELSE "raised"]
          ELSE IF thread[t].op = "check"
          THEN /\ ledger' = [ledger EXCEPT ![l].lock = NoThread]
               /\ thread' = [thread EXCEPT ![t].pc = "idle", ![t].seen = file.kind,
                      ![t].ret = IF is_uploaded(loaded.entries, EntryHash(t, 1))
                                 THEN "True" ELSE "False"]
          ELSE /\ thread' = [thread EXCEPT ![t].pc = "loaded", ![t].seen = file.kind,
                                           ![t].entries = loaded.entries]
               /\ UNCHANGED ledger
    /\ UNCHANGED <<main, call>>

\* entries.append(entry); self._save_log(path, entries)
Save(t) ==
    /\ thread[t].pc = "loaded"
    /\ LET l == thread[t].ledger
           name == EntryName(t, thread[t].n)
           hash == EntryHash(t, thread[t].n)
           entries == IF l = "upload"
                      THEN add_upload_entry(thread[t].entries, name, hash)
                      ELSE add_failed_entry(thread[t].entries, name, hash, "error", "stage")
       IN ledger' = [ledger EXCEPT ![l].file = save_log(entries)]
    /\ thread' = [thread EXCEPT ![t].pc = "saved"]
    /\ UNCHANGED <<main, call>>

\* return True: the with-block ends
Release(t) ==
    /\ thread[t].pc = "saved"
    /\ ledger' = [ledger EXCEPT ![thread[t].ledger].lock = NoThread,
                                ![thread[t].ledger].appended = @ + 1]
    /\ thread' = [thread EXCEPT ![t].pc = "idle", ![t].ret = "True"]
    /\ UNCHANGED <<main, call>>

NextLedger ==
    \E t \in Threads : Acquire(t) \/ Load(t) \/ Save(t) \/ Release(t)

SpecLedger == InitLedger /\ [][NextLedger]_vars

(* ------------ the coordinator over the items of one run --------------- *)
\* LogManager.check_qdrant_exists, the warning of its except branch: shown
\* when the scroll raised "Index required but not found" and the
\* attribute _index_warning_shown is not set yet
index_warning(index_warning_shown, scroll) ==
    scroll = "index_missing" /\ ~index_warning_shown

\* the items coordinated so far, the warnings logged, and the LogManager's
\* _index_warning_shown attribute
ItemsInputs ==
    [fn : {"items"}, history : {<<>>}, warnings : {0},
     index_warning_shown : {FALSE}]

InitItems ==
    Constructed /\ call \in ItemsInputs /\ ledger = NoLedgers /\ thread = NoThreads

\* generate_batch_embeddings_with_dedup for the next item of the run, the
\* scroll of its store check answering as the store chooses
CoordinateItem ==
    /\ call.fn = "items"
    /\ Len(call.history) < MaxItems
    /\ \E elog \in DedupLogs, cpoints \in DedupPoints, scroll \in ScrollOutcomes :
          LET r == generate_batch_embeddings_with_dedup(
                       elog, <<>>, cpoints, DedupFile.filename,
                       DedupFile.content, DedupFile.chunks, content_collection,
                       TRUE, FALSE, {}, scroll)
              warned == r.scrolled /\ index_warning(call.index_warning_shown, scroll)
          IN call' = [call EXCEPT
                         !.history = Append(@,
                             [scrolled |-> r.scrolled,
                              scroll |-> IF r.scrolled THEN scroll ELSE "none",
                              found_in |-> r.found_in]),
                         !.warnings = @ + (IF warned THEN 1 ELSE 0),
                         !.index_warning_shown = @ \/ warned]
    /\ UNCHANGED <<main, ledger, thread>>

NextItems == CoordinateItem

SpecItems == InitItems /\ [][NextItems]_vars

(* ------- the retry script beside the threads of one LogManager -------- *)
\* FailedFileRetry opens failed.json itself: load_failed_files at the start
\* of run, remove_from_failed_log after a successful reprocess
RetryIdle ==
    [fn |-> "retry", pc |-> "start", failed_files |-> <<>>, entries |-> <<>>]

InitRetryLedger ==
    /\ Constructed /\ call = RetryIdle
    /\ ledger \in {[l \in Ledgers |->
                      [file |-> IF l = "failed" THEN f
                                ELSE [kind |-> "list", entries |-> <<>>],
                       lock |-> NoThread, appended |-> 0,
                       before |-> Len(f.entries)]] :
                   f \in {[kind |-> "list", entries |-> <<>>],
                          [kind |-> "list",
                           entries |-> add_failed_entry(<<>>, "old", "md5:old",
                                                       "error", "stage")]}}
    /\ thread = [t \in Threads |-> Idle]

\* load_failed_files: with open(failed_log, 'r') as f: json.load(f)
RetryLoad ==
    /\ call.fn = "retry" /\ call.pc = "start"
    /\ call' = [call EXCEPT
                   !.failed_files = load_failed_files(ledger["failed"].file.entries),
                   !.pc = IF Len(ledger["failed"].file.entries) = 0
                          THEN "done" ELSE "loaded"]
    /\ UNCHANGED <<main, ledger, thread>>

\* remove_from_failed_log, its read of failed.json
RetryRead ==
    /\ call.fn = "retry" /\ call.pc = "loaded"
    /\ call' = [call EXCEPT !.entries = ledger["failed"].file.entries,
                            !.pc = "read"]
    /\ UNCHANGED <<main, ledger, thread>>

\* remove_from_failed_log, its json.dump of the filtered list
RetryWrite ==
    /\ call.fn = "retry" /\ call.pc = "read"
    /\ LET file_hash == DictGet(Head(call.failed_files), "file_hash", "")
       IN ledger' = [ledger EXCEPT !["failed"].file =
                        save_log(remove_from_failed_log(call.entries, file_hash))]
    /\ call' = [call EXCEPT !.pc = "done"]
    /\ UNCHANGED <<main, thread>>

NextRetryLedger ==
    \/ \E t \in Threads : Acquire(t) \/ Load(t) \/ Save(t) \/ Release(t)
    \/ RetryLoad \/ RetryRead \/ RetryWrite

SpecRetryLedger == InitRetryLedger /\ [][NextRetryLedger]_vars

(* ------------- the vector records of two source items ----------------- *)
\* source objects under two directories, their names and types varying
ItemKeys ==
    [prefix : {source_prefix}, dir : {"x", "y"}, stem : {"a", "b"},
     ext : {"pdf", "docx"}]
ItemContent(key) == "bytes of " \o key.dir \o "/" \o PathName(key)
ItemChunks(key, n) ==
    enumerate_chunks([j \in 1..n |-> ItemContent(key) \o "#" \o ToString(j)],
                     PathName(key))

NamesInputs ==
    {[fn |-> "names", keys |-> <<k1, k2>>, nchunks |-> <<n1, n2>>,
      done |-> {}, fpoints |-> {}, cpoints |-> {}] :
        <<k1, k2, n1, n2>> \in
            {q \in ItemKeys \X ItemKeys \X (1..MaxChunks) \X (1..MaxChunks) :
                q[1] # q[2]}}

InitNames ==
    Constructed /\ call \in NamesInputs /\ ledger = NoLedgers /\ thread = NoThreads

\* process_file, its step 9 for one of the items: filename is
\* Path(file_key).name, and both uploads derive their identifiers from it
UploadItem ==
    /\ call.fn = "names"
    /\ \E i \in {1, 2} \ call.done :
          LET file_key == call.keys[i]
              filename == PathName(file_key)
              chunks == ItemChunks(file_key, call.nchunks[i])
              uf == upload_filename(call.fpoints, filename,
                        Vector(filename_model, filename),
                        hash_file_lightweight(ItemContent(file_key)), FALSE)
              uc == upload_content_chunks(call.cpoints, filename, chunks,
                        generate_batch_embeddings(Texts(chunks), {}), 0)
          IN call' = [call EXCEPT !.done = @ \cup {i},
                                  !.fpoints = uf.points, !.cpoints = uc.points]
    /\ UNCHANGED <<main, ledger, thread>>

NextNames == UploadItem

SpecNames == InitNames /\ [][NextNames]_vars

(* ------ two runs of the shared pipeline in the API's thread pool ------- *)
\* start_pipeline adds run_pipeline_task to the background tasks without
\* looking at the tasks already running; each task calls run() on the one
\* pipeline instance
Tasks == {"task1", "task2"}
Pending == [pc |-> "pending", new_files |-> <<>>]
NoRunsYet == [conversion |-> <<>>, upload |-> <<>>, embedded |-> <<>>]

InitTasks ==
    /\ Constructed /\ call = NoCall
    /\ ledger = NoRunsYet
    /\ thread = [t \in Tasks |-> Pending]

\* the item loop goes on with the next item, or run returns
NextItem(t) ==
    [thread EXCEPT ![t].new_files = Tail(@),
                   ![t].pc = IF Len(thread[t].new_files) > 1 THEN "item" ELSE "done"]

\* run, up to its item loop: the listing without the processed hashes
TaskStart(t) ==
    /\ thread[t].pc = "pending"
    /\ LET files == list_files(source_files, SourceOrder)
           processed_hashes == get_processed_hashes(ledger.conversion, ledger.upload)
           fresh == SelectSeq(files, LAMBDA k : ETag(k) \notin processed_hashes)
       IN thread' = [thread EXCEPT ![t].new_files = fresh,
                        ![t].pc = IF Len(fresh) > 0 THEN "item" ELSE "done"]
    /\ UNCHANGED <<main, call, ledger>>

\* process_file steps 1 to 3: is_uploaded takes and releases the upload lock
TaskCheck(t) ==
    /\ thread[t].pc = "item"
    /\ LET file_hash == hash_file(ContentOf(Head(thread[t].new_files)))
       IN thread' = IF is_uploaded(ledger.upload, file_hash)
                    THEN NextItem(t)
                    ELSE [thread EXCEPT ![t].pc = "convert"]
    /\ UNCHANGED <<main, call, ledger>>

\* steps 4 and 5: conversion, its ledger entry, the stored markdown
TaskConvert(t) ==
    /\ thread[t].pc = "convert"
    /\ LET file_key == Head(thread[t].new_files)
       IN ledger' = [ledger EXCEPT !.conversion =
                        add_conversion_entry(@, PathName(file_key),
                                             hash_file(ContentOf(file_key)))]
    /\ thread' = [thread EXCEPT ![t].pc = "embed"]
    /\ UNCHANGED <<main, call>>

\* steps 6 to 8: chunks and embeddings
TaskEmbed(t) ==
    /\ thread[t].pc = "embed"
    /\ ledger' = [ledger EXCEPT !.embedded =
                     Append(@, PathName(Head(thread[t].new_files)))]
    /\ thread' = [thread EXCEPT ![t].pc = "upload"]
    /\ UNCHANGED <<main, call>>

\* step 9 and add_upload_entry
TaskUpload(t) ==
    /\ thread[t].pc = "upload"
    /\ LET file_key == Head(thread[t].new_files)
       IN ledger' = [ledger EXCEPT !.upload =
                        add_upload_entry(@, PathName(file_key),
                                         hash_file(ContentOf(file_key)))]
    /\ thread' = NextItem(t)
    /\ UNCHANGED <<main, call>>

NextTasks ==
    \E t \in Tasks :
        TaskStart(t) \/ TaskCheck(t) \/ TaskConvert(t) \/ TaskEmbed(t) \/ TaskUpload(t)

SpecTasks == InitTasks /\ [][NextTasks]_vars

(* ------- an item ingested from its source and from its markdown ------- *)
\* the stems that contain a dot, as in "notes-v1.2.pdf"
DottedStems == {"notes-v1.2"}
ReprocessKeys ==
    [prefix : {source_prefix}, dir : {"x", "y"},
     stem : {"a", "b"} \cup DottedStems, ext : {"pdf", "docx"}]

\* MarkdownReprocessor.process_markdown_file, the file name it derives from
\* the markdown key: the stem if it contains a dot, else the stem + ".pdf"
reprocess_filename(markdown_key) ==
    IF markdown_key.stem \in DottedStems
    THEN markdown_key.stem
    ELSE markdown_key.stem \o ".pdf"

ReprocessInputs ==
    [fn : {"reprocess"}, key : ReprocessKeys, nchunks : 1..MaxChunks,
     ingested : {FALSE}, reprocessed : {FALSE}, fpoints : {{}}, cpoints : {{}}]

InitReprocess ==
    Constructed /\ call \in ReprocessInputs /\ ledger = NoLedgers /\ thread = NoThreads

\* the records either path upserts for the item under the name it uses
UpsertedAs(filename, bytes) ==
    LET markdown == MarkdownOf(ItemContent(call.key))
        chunks == enumerate_chunks(
                      [j \in 1..call.nchunks |-> markdown \o "#" \o ToString(j)],
                      filename)
    IN [fpoints |-> upload_filename(call.fpoints, filename,
                        Vector(filename_model, filename),
                        hash_file_lightweight(bytes), FALSE).points,
        cpoints |-> upload_content_chunks(call.cpoints, filename, chunks,
                        generate_batch_embeddings(Texts(chunks), {}), 0).points]

\* IngestionPipeline.process_file on the source object
IngestSource ==
    /\ call.fn = "reprocess" /\ ~call.ingested
    /\ LET up == UpsertedAs(PathName(call.key), ItemContent(call.key))
       IN call' = [call EXCEPT !.ingested = TRUE,
                      !.fpoints = up.fpoints, !.cpoints = up.cpoints]
    /\ UNCHANGED <<main, ledger, thread>>

\* MarkdownReprocessor.process_markdown_file on the stored markdown
ReprocessMarkdown ==
    /\ call.fn = "reprocess" /\ ~call.reprocessed
    /\ LET markdown_key == transform_path(call.key)
           up == UpsertedAs(reprocess_filename(markdown_key),
                            Encode(MarkdownOf(ItemContent(call.key))))
       IN call' = [call EXCEPT !.reprocessed = TRUE,
                      !.fpoints = up.fpoints, !.cpoints = up.cpoints]
    /\ UNCHANGED <<main, ledger, thread>>

NextReprocess == IngestSource \/ ReprocessMarkdown

SpecReprocess == InitReprocess /\ [][NextReprocess]_vars

(* ================================ claims ============================== *)
RetryOps == {"process_source_file", "process_markdown_file"}
EntriesFor(log, filename) == {i \in 1..Len(log) : log[i].filename = filename}
HasIdentityRecord(filename) == \E p \in filename_points : p.id = uuid5(filename)
HasChunkRecord(filename, c) == \E p \in content_points : p.id = chunk_point_id(filename, c)
HasAllRecords(filename) ==
    /\ HasIdentityRecord(filename)
    /\ \A c \in 1..NChunksOfName(filename) : HasChunkRecord(filename, c)

\* C1: no item failure leaves process_file: every invocation made by
\* IngestionPipeline.run returns True or False, a False return has appended
\* a failure entry for the item, and run is never ended by an exception
C1_ItemFailureIsCaught ==
    /\ pipeline_status # "raised"
    /\ last.op = "process_file" =>
         /\ last.ret \in {"True", "False"}
         /\ last.ret = "False" =>
              /\ Len(failed_log) > 0
              /\ failed_log[Len(failed_log)].filename = last.filename

\* C2: whenever the upload ledger holds an entry for an item, the filename
\* collection holds the item's identity record and the content collection
\* holds one chunk record for each of its chunks 1..N
C2_UploadedHasAllRecords ==
    \A i \in 1..Len(upload_log) : HasAllRecords(upload_log[i].filename)

\* C3: after the retry run has successfully reprocessed a failure entry's
\* item, the failure ledger no longer holds that entry
C3_SuccessRemovesEntry ==
    (last.op \in RetryOps /\ last.ret = "True")
        => \A i \in 1..Len(failed_log) : failed_log[i] # last.entry

\* C4: a retry that ends in success for an item whose earlier failure was a
\* vector-store upload failure (its content embeddings generated and logged
\* before) has the identity record and all N chunk records in the store
C4_RetrySuccessHasRecords ==
    (/\ last.op \in RetryOps /\ last.ret = "True"
     /\ last.entry.error \in {"Filename upload failed", "Content upload failed"}
     /\ last.emb_logged)
        => HasAllRecords(last.filename)

\* C5: record identifiers depend on the item name (and the chunk number)
\* alone, so an upsert of an item that is already stored overwrites in place:
\* the store never holds two records of one logical unit, and upserting an
\* item a second time leaves each collection's record count as the first did
C5_ReupsertAddsNoRecords ==
    /\ \A p, q \in filename_points : p.source = q.source => p = q
    /\ \A p, q \in content_points :
          (/\ p.metadata_filename = q.metadata_filename
           /\ p.metadata_page_number = q.metadata_page_number) => p = q
    /\ \A k \in SourceKeys :
          LET filename == PathName(k)
              chunks == chunk_markdown(MarkdownOf(ContentOf(k)), filename, FALSE)
              embeddings == generate_batch_embeddings(Texts(chunks), {})
              embedding == Vector(filename_model, filename)
              file_hash == hash_file_lightweight(ContentOf(k))
              f1 == upload_filename(filename_points, filename, embedding, file_hash, FALSE)
              f2 == upload_filename(f1.points, filename, embedding, file_hash, FALSE)
              c1 == upload_content_chunks(content_points, filename, chunks, embeddings, 0)
              c2 == upload_content_chunks(c1.points, filename, chunks, embeddings, 0)
          IN /\ f1.ok /\ f2.ok /\ c1.ok /\ c2.ok
             /\ Cardinality(f2.points) = Cardinality(f1.points)
             /\ Cardinality(c2.points) = Cardinality(c1.points)

\* a retry has upserted, successfully, an item whose identity record an
\* earlier run had already written
C5_Witness ==
    /\ last.op \in RetryOps /\ last.ret = "True"
    /\ last.entry.error = "Content upload failed"
    /\ InCalls(last.calls, "qdrant.upsert_filename")
    /\ InCalls(last.calls, "qdrant.upsert_content")

\* C6: a second IngestionPipeline.run over unchanged items that the first
\* run ingested successfully appends exactly one skip-event per such item
\* to the skipped ledger
C6_SecondRunLogsOneSkip ==
    (pipeline_status = "done" /\ faults = 0) =>
        \A j \in 1..Len(run_start.files) :
            LET k == run_start.files[j]
            IN hash_file(ContentOf(k)) \in run_start.uploaded =>
                 Cardinality({i \in (run_start.skipped_len + 1)..Len(skipped_log) :
                                 skipped_log[i].filename = PathName(k)}) = 1

\* the item process_file is about to handle has its strong hash in the
\* upload ledger
HeadAlreadyUploaded ==
    \E i \in 1..Len(upload_log) :
        upload_log[i].hash = hash_file(ContentOf(Head(new_files)))
SkipPathFrame ==
    /\ last'.ret = "True"
    /\ \A i \in 1..Len(last'.calls) : last'.calls[i] = "r2.get"
    /\ UNCHANGED <<conversion_log, upload_log, embedding_log, failed_log,
                   filename_points, content_points>>

C8_RetrySuccessOneUploadEntry ==
    (last.op \in RetryOps /\ last.ret = "True")
        => Cardinality(EntriesFor(upload_log, last.filename)) = 1

\* C9: a retry of an item whose normalized text is stored in the markdown
\* location does not invoke the conversion service, whether or not the raw
\* source is still present
C9_StoredMarkdownNotReconverted ==
    (last.op \in RetryOps /\ last.md_stored)
        => ~InCalls(last.calls, "docling.convert")

\* C10: the coordinator returns None exactly for a deduplication skip and a
\* list whenever it called the backend (failed or not); its caller takes the
\* 'already embedded' branch exactly on a skip, and a skip ends in success
C10_SkipDistinctFromFailure ==
    last.coord.invoked =>
        LET skip == last.coord.found_in # "nowhere"
        IN /\ skip <=> IsNone(last.coord.value)
           /\ last.coord.backend_called => ~IsNone(last.coord.value)
           /\ skip <=> ~last.coord.backend_called
           /\ (last.coord.branch = "already_embedded") <=> skip
           /\ skip => last.ret = "True"

C10_Witness ==
    /\ last.coord.invoked /\ last.coord.found_in = "log_file"
    /\ IsNone(last.coord.value) /\ last.coord.branch = "already_embedded"
    /\ last.ret = "True"

\* C11: an embedding-success entry for an item's content is appended only
\* when the backend produced a vector for every chunk: an invocation in
\* which some content embedding call failed leaves no such entry behind
C11_NoSuccessEntryOnFailedEmbedding ==
    (/\ last.coord.invoked /\ last.coord.backend_called
     /\ \E i \in 1..Len(last.coord.value.items) : last.coord.value.items[i] = None
     /\ ~last.emb_logged)
        => ~\E i \in EntriesFor(embedding_log, last.filename) :
               embedding_log[i].collection_name = content_collection

\* C12: whenever the coordinator has returned freshly generated vectors to
\* its caller, the embedding ledger holds a success entry for the item with
\* the content collection, the chunk count and the model name
C12_FreshVectorsAreLogged ==
    (/\ last.coord.invoked /\ last.coord.backend_called
     /\ ~IsNone(last.coord.value)
     /\ \A i \in 1..Len(last.coord.value.items) : last.coord.value.items[i] # None)
        => \E i \in EntriesFor(embedding_log, last.filename) :
               /\ embedding_log[i].collection_name = content_collection
               /\ embedding_log[i].chunks_created = Len(last.coord.value.items)
               /\ embedding_log[i].model_name = content_model

\* C13: whatever batch requests and per-text requests fail, each of the three
\* generate_batch_embeddings returns exactly one element per input text, and
\* element i is the vector of text i or the None placeholder
C13_ResultKeepsLengthAndOrder ==
    call.fn \in {"ollama", "gemini", "client"} =>
        /\ Len(call.embeddings) = Len(call.texts)
        /\ \A i \in 1..Len(call.texts) :
               call.embeddings[i] \in {None, Vector(content_model, call.texts[i])}

\* a backend answered a list of several batches in which a batch request
\* failed after an earlier one had succeeded, and a text of the fallback failed
C13_Witness ==
    /\ call.fn = "gemini"
    /\ Len(call.texts) >= 3
    /\ 1 \notin call.batch_fail /\ 2 \in call.batch_fail
    /\ \E i \in 1..Len(call.embeddings) : call.embeddings[i] = None
    /\ \E i \in 1..Len(call.embeddings) : call.embeddings[i] # None

\* C14: when no request fails, n texts under the batch limit b cost exactly
\* ceil(n/b) backend requests of at most b texts each, and the result is the
\* n vectors in input order
C14_BatchedRequests ==
    (/\ call.fn \in {"ollama", "gemini", "client"}
     /\ call.batch_fail = {} /\ call.text_fail = {})
        => /\ Len(call.requests) = NBatches(Len(call.texts), call.b)
           /\ \A j \in 1..Len(call.requests) : call.requests[j] <= call.b
           /\ call.embeddings =
                  [i \in 1..Len(call.texts) |-> Vector(content_model, call.texts[i])]

\* C15: when upload_content_chunks has returned True for an item of N chunks
\* (process_file went on to return True after calling it), the content
\* collection holds exactly N chunk records of the item, one per sequence
\* number 1..N
C15_TrueMeansAllChunksUpserted ==
    (/\ last.op = "process_file" /\ last.ret = "True"
     /\ InCalls(last.calls, "qdrant.upsert_content"))
        => LET records == {p \in content_points : p.metadata_filename = last.filename}
               N == NChunksOfName(last.filename)
           IN /\ Cardinality(records) = N
              /\ \A c \in 1..N :
                     \E p \in records : /\ p.metadata_page_number = c
                                        /\ p.id = chunk_point_id(last.filename, c)

\* C16: when a batch upsert of upload_content_chunks fails inside
\* process_file, no later batch is attempted (the failing request is the
\* last one), process_file returns False, a failure entry for the item is
\* appended and the upload ledger is left as it was
C16_FailedBatchStopsAndFailsItem ==
    [][(/\ pipeline_status = "running" /\ faults' # faults
        /\ last'.op = "process_file"
        /\ last'.env.bad_batch # 0)
          => /\ last'.ret = "False"
             /\ CountCalls(last'.calls, "qdrant.upsert_content") = last'.env.bad_batch
             /\ last'.calls[Len(last'.calls)] = "qdrant.upsert_content"
             /\ upload_log' = upload_log
             /\ Len(failed_log') = Len(failed_log) + 1
             /\ failed_log'[Len(failed_log')].filename = last'.filename]_vars

\* process_file failed on the first of two batches: one upsert request only
C16_Witness ==
    /\ last.op = "process_file" /\ last.env.bad_batch = 1
    /\ last.env.emb_fail = {}
    /\ NChunksOfName(last.filename) > batch_size
    /\ CountCalls(last.calls, "qdrant.upsert_content") = 1
    /\ last.ret = "False"
    /\ EntriesFor(upload_log, last.filename) = {}

\* C17: whatever the interleaving of the threads' appends to a ledger, once
\* k appends have returned True (and none is between its save and its return)
\* the ledger holds k entries more than it did before
C17_NoAppendLost ==
    \A l \in Ledgers :
        (\A t \in Threads : ~(thread[t].pc = "saved" /\ thread[t].ledger = l))
            => Len(load_log(ledger[l].file).entries)
                   = ledger[l].before + ledger[l].appended

\* both threads have appended to the same ledger and returned True, and the
\* file holds the entry of each
C17_Witness ==
    \E l \in Ledgers :
        /\ ledger[l].appended >= 2
        /\ \A t \in Threads : \E i \in 1..Len(ledger[l].file.entries) :
               ledger[l].file.entries[i].filename = EntryName(t, 1)

\* C18: a call that finds the ledger's backing file unparseable or missing
\* treats the ledger as empty: the existence check answers False, the append
\* returns True, and no exception leaves LogManager
C18_UnparseableLedgerIsEmpty ==
    \A t \in Threads :
        (thread[t].pc = "idle" /\ thread[t].seen \in Unparseable)
            => /\ thread[t].op = "check" => thread[t].ret = "False"
               /\ thread[t].op = "append" => thread[t].ret = "True"

\* the cases _load_log handles: an existence check on a ledger whose file
\* is missing or is not JSON has answered False
C18_Witness ==
    \E t \in Threads :
        /\ thread[t].pc = "idle" /\ thread[t].op = "check"
        /\ thread[t].seen \in {"invalid_json", "missing"}
        /\ thread[t].ret = "False"

\* C19: when the store's existence query fails because the payload index
\* is absent, check_qdrant_exists answers False, and a coordinator that got
\* as far as the store check goes on to generate the embeddings: it returns
\* a list, one element per chunk, and logs no skip
C19_MissingIndexIsNotFound ==
    (call.fn = "dedup" /\ call.scroll = "index_missing")
        => /\ ~check_qdrant_exists(call.cpoints, DedupHash, call.scroll)
           /\ call.result.scrolled
                  => /\ call.result.backend_called
                     /\ ~IsNone(call.result.value)
                     /\ Len(call.result.value.items) = Len(DedupFile.chunks)
                     /\ call.result.found_in = "nowhere"
                     /\ call.result.skipped = <<>>

\* the query failed for a collection that does hold a record of the file's
\* hash, and the coordinator generated the embeddings all the same
C19_Witness ==
    /\ call.fn = "dedup" /\ call.scroll = "index_missing"
    /\ \E p \in call.cpoints : p.metadata_md5_hash = DedupHash
    /\ call.result.scrolled /\ call.result.backend_called
    /\ ~IsNone(call.result.value)

\* the stage at which the injected failure stopped the handler: content
\* embeddings that all failed stop it at the embedding backend, a failed
\* upsert at the vector store
FailedStage(env, nchunks) ==
    IF env.fail \in {"docling", "r2", "chunker", "ollama"} THEN env.fail
    ELSE IF env.fail = "qdrant_filename" THEN "qdrant"
    ELSE IF env.emb_fail = 1..nchunks THEN "ollama"
    ELSE IF env.bad_batch # 0 THEN "qdrant"
    ELSE "pipeline"

\* C20: the failure entry a handler writes for the item it failed on carries
\* the item's identity hash and names the stage where the failure occurred
C20_FailureEntryNamesHashAndStage ==
    (/\ last.op \in {"process_file"} \cup RetryOps
     /\ last.ret = "False" /\ last.env # NoEnv /\ last.env.fail # "download"
     /\ Len(failed_log) > 0
     /\ failed_log[Len(failed_log)].filename = last.filename)
        => LET entry == failed_log[Len(failed_log)]
               key == CHOOSE k \in SourceKeys : PathName(k) = last.filename
           IN /\ entry.hash = hash_file(ContentOf(key))
              /\ entry.stage = FailedStage(last.env, NChunksOfName(last.filename))

C22_PollTerminates == <>(call.pc # "polling")

\* C23: a conversion submit, an embedding request or a vector-store upsert
\* whose first attempt meets a transient error is attempted again, and never
\* more often than the fixed stop count
C23_TransientErrorIsRetried ==
    (/\ call.fn \in {"convert_from_memory", "_generate_embedding", "upload_filename"}
     /\ call.outcomes[1] = "transient")
        => call.attempts >= 2 /\ call.attempts <= stop_after_attempt

\* C24: a call whose first attempt meets a validation error (no task
\* identifier, an empty vector) fails after exactly that one attempt
C24_ValidationErrorIsNotRetried ==
    (/\ call.fn \in {"convert_from_memory", "_post_file", "_generate_embedding"}
     /\ call.outcomes[1] = "validation")
        => call.attempts = 1 /\ ~call.ok

\* the syntax of each type: a table is a pipe with a row separator, code is
\* a fence or an indented block, a list is a bulleted or a numbered line
HasSyntax(text) ==
    [Table |-> text.pipe /\ (text.rule \/ text.pipe_dash),
     Image |-> text.image,
     Code |-> text.fence \/ text.indented,
     List |-> text.bullet \/ text.numbered]
Priority == <<"Table", "Image", "Code", "List">>

\* C25: the element type is the first of Table, Image, Code, List whose
\* syntax the chunk contains, and Text when it contains none
C25_FirstMatchWins ==
    call.fn = "_detect_element_type" =>
        LET present == {i \in 1..Len(Priority) : HasSyntax(call.text)[Priority[i]]}
        IN call.element_type =
               IF present = {} THEN "Text"
               ELSE Priority[CHOOSE i \in present : \A j \in present : i <= j]

\* a chunk with both table and image syntax has been classified Table
C25_Witness ==
    /\ call.fn = "_detect_element_type"
    /\ HasSyntax(call.text)["Table"] /\ HasSyntax(call.text)["Image"]
    /\ call.element_type = "Table"

C27_ChunkWithinTargetSize ==
    call.fn \in {"chunk_markdown", "chunk_markdown_again"}
        => \A i \in 1..Len(call.text_chunks) :
               count_tokens(call.text_chunks[i]) <= call.chunk_size_tokens

\* the embedding ledger holds an entry with the file's hash and the
\* collection the coordinator was called for
LedgerHit ==
    \E i \in 1..Len(call.elog) :
        /\ call.elog[i].md5_hash = DedupHash
        /\ call.elog[i].collection_name = content_collection

\* C28: with deduplication active and force off, the coordinator returns
\* Skipped at its first step exactly when the embedding ledger holds an
\* entry with the item's hash and the target collection; on that hit it
\* appends one skip event (already_embedded, log_file) and neither queries
\* the store nor calls the backend; an entry of the same hash under another
\* collection does not cause a skip
C28_LedgerHitSkipsFirst ==
    (call.fn = "dedup" /\ call.has_lm /\ ~call.force)
        => /\ (call.result.value = PyNone /\ call.result.found_in = "log_file")
                  <=> LedgerHit
           /\ LedgerHit
                  => /\ Len(call.result.skipped) = 1
                     /\ call.result.skipped[1].md5_hash = DedupHash
                     /\ call.result.skipped[1].skip_reason = "already_embedded"
                     /\ call.result.skipped[1].found_in = "log_file"
                     /\ ~call.result.scrolled
                     /\ ~call.result.backend_called
                     /\ call.result.embedding = call.elog
           /\ (~LedgerHit /\ call.cpoints = {})
                  => call.result.backend_called /\ call.result.skipped = <<>>

\* the ledger hit happened although the store holds a matching record too
C28_Witness ==
    /\ call.fn = "dedup" /\ call.has_lm /\ ~call.force
    /\ LedgerHit
    /\ \E p \in call.cpoints : p.metadata_md5_hash = DedupHash
    /\ call.result.found_in = "log_file"

\* C29: with force-reprocess set the coordinator consults neither the
\* ledger nor the store, logs no skip, never returns Skipped and always
\* calls the backend
C29_ForceSkipsNothing ==
    (call.fn = "dedup" /\ call.force)
        => /\ call.result.backend_called
           /\ ~call.result.scrolled
           /\ call.result.skipped = <<>>
           /\ call.result.found_in = "nowhere"
           /\ call.result.value # PyNone
           /\ call.result.value
                  = PyList(generate_batch_embeddings(DedupFile.chunks, call.emb_fail))

\* forced although both the ledger and the store know the file
C29_Witness ==
    /\ call.fn = "dedup" /\ call.force /\ call.has_lm
    /\ LedgerHit
    /\ \E p \in call.cpoints : p.metadata_md5_hash = DedupHash
    /\ call.result.backend_called

\* the content collection holds a record upload_content_chunks wrote for
\* the file
HoldsUploadedChunk ==
    \E i \in 1..Len(DedupFile.chunks) :
        chunk_point(DedupFile.filename,
            [chunk_number |-> i, text |-> DedupFile.chunks[i],
             md5_hash |-> hash_text(DedupFile.chunks[i])],
            Vector(content_model, DedupFile.chunks[i])) \in call.cpoints

\* C30: when the ledger has no entry for the item but the content
\* collection already holds the chunk records upload_content_chunks wrote
\* for it, the store check finds a record carrying the item's hash and the
\* coordinator returns Skipped (already_in_qdrant) without calling the backend
C30_StoredChunksSkip ==
    (/\ call.fn = "dedup" /\ call.has_lm /\ ~call.force
     /\ ~LedgerHit /\ call.scroll = "ok" /\ HoldsUploadedChunk)
        => /\ call.result.value = PyNone
           /\ call.result.found_in = "qdrant_collection"
           /\ ~call.result.backend_called

\* the store was queried while it held the file's own chunk record
C30_Witness ==
    /\ call.fn = "dedup" /\ call.has_lm /\ ~call.force
    /\ ~LedgerHit /\ call.scroll = "ok" /\ HoldsUploadedChunk
    /\ call.result.scrolled

\* C31: once the vector store has signalled a missing payload index, no
\* later item of the run sends an existence query to the store, and the
\* missing-index warning is emitted exactly once
C31_LedgerOnlyAfterMissingIndex ==
    call.fn = "items"
        => /\ \A i, j \in 1..Len(call.history) :
                  (i < j /\ call.history[i].scroll = "index_missing")
                      => ~call.history[j].scrolled
           /\ (\E i \in 1..Len(call.history) :
                   call.history[i].scroll = "index_missing")
                  => call.warnings = 1

\* a later item was coordinated after the store signalled the missing index
C31_Witness ==
    /\ call.fn = "items"
    /\ Len(call.history) >= 2
    /\ call.history[1].scroll = "index_missing"
    /\ call.warnings = 1

\* the batch a 1-based position belongs to under the batch limit b
BatchOf(i, b) == ((i - 1) \div b) + 1
TextsOfFailedBatches ==
    {i \in 1..Len(call.texts) : BatchOf(i, call.b) \in call.batch_fail}

\* C32: when batch k of a backend's generate_batch_embeddings fails, only
\* the texts of batch k are re-sent as sequential per-text calls: the
\* vectors of the batches that succeeded are kept, no batch is requested
\* again, and the later batches are still sent as batches
C32_FallbackOnlyForFailedBatch ==
    call.fn \in {"ollama", "gemini"}
        => /\ \A i \in 1..Len(call.texts) :
                  i \notin TextsOfFailedBatches
                      => call.embeddings[i] = Vector(content_model, call.texts[i])
           /\ Len(call.requests)
                  = NBatches(Len(call.texts), call.b) + Cardinality(TextsOfFailedBatches)

\* a backend answered after its second batch failed and its first had not
C32_Witness ==
    /\ call.fn = "ollama"
    /\ Len(call.texts) > 2 * call.b
    /\ call.batch_fail = {2}
    /\ call.text_fail # {}

\* the step of process_file an external request belongs to
StageOf(c) ==
    CASE c = "r2.get" -> 1
      [] c = "docling.convert" -> 4
      [] c = "r2.put" -> 5
      [] c = "ollama.embed_filename" -> 7
      [] c \in {"qdrant.scroll", "ollama.embed_content"} -> 8
      [] OTHER -> 9
UpsertCalls == {"qdrant.upsert_filename", "qdrant.upsert_content"}

\* C33: process_file performs its stages in the fixed order and starts no
\* stage unless the earlier ones succeeded: the requests of an invocation
\* follow the order of the steps, no vector-store upsert is sent before the
\* identity embedding and every content embedding are available, and a
\* successful invocation ends with the item's upload-ledger entry
C33_StagesInOrder ==
    last.op = "process_file"
        => /\ \A i, j \in 1..Len(last.calls) :
                  i < j => StageOf(last.calls[i]) <= StageOf(last.calls[j])
           /\ (\E i \in 1..Len(last.calls) : last.calls[i] \in UpsertCalls)
                  => /\ InCalls(last.calls, "ollama.embed_filename")
                     /\ last.coord.invoked
                     /\ ~IsNone(last.coord.value)
                     /\ \A k \in 1..Len(last.coord.value.items) :
                            last.coord.value.items[k] # None
           /\ (last.ret = "True" /\ last.coord.invoked)
                  => /\ Len(upload_log) > 0
                     /\ upload_log[Len(upload_log)].filename = last.filename

\* an invocation upserted the item's records
C33_Witness ==
    /\ last.op = "process_file"
    /\ InCalls(last.calls, "qdrant.upsert_content")
    /\ last.ret = "True"

IsPrefix(a, b) == Len(a) <= Len(b) /\ \A i \in 1..Len(a) : a[i] = b[i]

\* C34: across pipeline runs and retries every ledger is append-only: an
\* entry of the conversion, upload, embedding or skipped ledger is never
\* modified or removed and keeps its position, and the failure ledger loses
\* an entry only in a step of the retry path whose reprocess returned success
C34_LedgersAppendOnly ==
    [][/\ IsPrefix(conversion_log, conversion_log')
       /\ IsPrefix(upload_log, upload_log')
       /\ IsPrefix(embedding_log, embedding_log')
       /\ IsPrefix(skipped_log, skipped_log')
       /\ ~IsPrefix(failed_log, failed_log')
              => /\ retry_status = "running"
                 /\ last'.op \in RetryOps /\ last'.ret = "True"]_vars

\* a retry reconverted an item after another item's conversion entry had
\* been appended behind the item's first one
C34_Witness ==
    /\ last.op = "process_source_file"
    /\ Len(conversion_log) >= 3
    /\ conversion_log[1].filename = conversion_log[Len(conversion_log)].filename
    /\ Len(failed_log) >= 1

\* C35: every read and every write of a ledger's backing store, the retry
\* path's load of the failure ledger and its removal of an entry included,
\* is performed by the holder of that ledger's lock
C35_LedgerAccessUnderLock ==
    [][/\ \A l \in Ledgers :
              ledger'[l].file # ledger[l].file
                  => /\ ledger[l].lock \in Threads
                     /\ thread'[ledger[l].lock] # thread[ledger[l].lock]
       /\ \A t \in Threads :
              (thread[t].pc = "locked" /\ thread'[t].pc # "locked")
                  => ledger[thread[t].ledger].lock = t
       /\ (call.fn = "retry" /\ call' # call)
              => ledger["failed"].lock = "retry"]_vars

\* the retry script rewrote the failure ledger while a thread that had
\* loaded it was still holding its lock
C35_Witness ==
    /\ call.fn = "retry" /\ call.pc = "done" /\ Len(call.failed_files) > 0
    /\ \E t \in Threads :
          /\ ledger["failed"].lock = t
          /\ thread[t].pc = "loaded" /\ thread[t].ledger = "failed"

\* the items of a run's listing whose hash the upload ledger held when the
\* run started
CompletedAtStart ==
    {i \in 1..Len(run_start.files) :
        hash_file(ContentOf(run_start.files[i])) \in run_start.uploaded}

\* C36: run excludes an item from processing, counting it as skipped, only
\* if the upload ledger records the item: an item that was converted but
\* failed at a later stage is selected again by the next run
C36_OnlyCompletedItemsExcluded ==
    pipeline_status \in {"running", "done"}
        => results.skipped <= Cardinality(CompletedAtStart)

\* a run started after an item had been converted and had then failed
C36_Witness ==
    /\ pipeline_status = "running"
    /\ \E i \in 1..Len(conversion_log) :
          /\ \E j \in 1..Len(failed_log) :
                 failed_log[j].filename = conversion_log[i].filename
          /\ \A j \in 1..Len(upload_log) :
                 upload_log[j].filename # conversion_log[i].filename
          /\ \E k \in 1..Len(run_start.files) :
                 PathName(run_start.files[k]) = conversion_log[i].filename

\* the store holds the identity record and every chunk record item i wrote
KeepsRecords(i) ==
    LET file_key == call.keys[i]
        chunks == ItemChunks(file_key, call.nchunks[i])
    IN /\ filename_point(PathName(file_key),
              Vector(filename_model, PathName(file_key)),
              hash_file_lightweight(ItemContent(file_key))) \in call.fpoints
       /\ \A j \in 1..Len(chunks) :
              chunk_point(PathName(file_key), chunks[j],
                  Vector(content_model, chunks[j].text)) \in call.cpoints

\* C37: two distinct source items never share a vector-record identifier:
\* processing one item overwrites neither the identity record nor a chunk
\* record of another item, items of the same file name under different
\* source directories included
C37_ItemsKeepTheirRecords ==
    call.fn = "names" => \A i \in call.done : KeepsRecords(i)

\* both of two items of different names have been processed
C37_Witness ==
    /\ call.fn = "names" /\ call.done = {1, 2}
    /\ PathName(call.keys[1]) # PathName(call.keys[2])
    /\ KeepsRecords(1) /\ KeepsRecords(2)

\* the embedding ledger holds the content entry a reprocess of the item
\* wrote under the hash of the given bytes
ContentLoggedUnder(filename, bytes) ==
    \E i \in 1..Len(embedding_log) :
        /\ embedding_log[i].filename = filename
        /\ embedding_log[i].collection_name = content_collection
        /\ embedding_log[i].md5_hash = hash_file_lightweight(bytes)
SourceBytes(filename) == ContentOf(CHOOSE k \in SourceKeys : PathName(k) = filename)
MarkdownBytes(filename) == Encode(MarkdownOf(SourceBytes(filename)))

\* C38: the deduplication key of an item is the same on every path: an item
\* whose content embeddings were logged when it was processed from its raw
\* source is recognised as already embedded when it is reprocessed from its
\* stored normalized text, and the other way round
C38_SameKeyOnEveryPath ==
    /\ (/\ last.op = "process_markdown_file" /\ last.coord.invoked
        /\ ~force_reprocess
        /\ ContentLoggedUnder(last.filename, SourceBytes(last.filename)))
           => IsNone(last.coord.value) /\ last.coord.found_in = "log_file"
    /\ (/\ last.op = "process_source_file" /\ last.coord.invoked
        /\ ~force_reprocess
        /\ ContentLoggedUnder(last.filename, MarkdownBytes(last.filename)))
           => IsNone(last.coord.value) /\ last.coord.found_in = "log_file"

\* the item was reprocessed from its stored text after its content
\* embeddings had been logged from the source
C38_Witness ==
    /\ last.op = "process_markdown_file" /\ last.coord.invoked
    /\ ContentLoggedUnder(last.filename, SourceBytes(last.filename))
    /\ ContentLoggedUnder(last.filename, MarkdownBytes(last.filename))

\* C39: when two pipeline runs execute concurrently on the shared pipeline
\* instance, no item is converted, embedded or recorded in the upload
\* ledger twice
C39_NoItemProcessedTwice ==
    (DOMAIN thread = Tasks /\ DOMAIN ledger = DOMAIN NoRunsYet)
        => \A name \in AllNames :
               /\ Cardinality(EntriesFor(ledger.conversion, name)) <= 1
               /\ Cardinality(EntriesFor(ledger.upload, name)) <= 1
               /\ Cardinality({i \in 1..Len(ledger.embedded) :
                                  ledger.embedded[i] = name}) <= 1

\* both runs have returned and every item is in the upload ledger
C39_Witness ==
    /\ DOMAIN thread = Tasks /\ DOMAIN ledger = DOMAIN NoRunsYet
    /\ \A t \in Tasks : thread[t].pc = "done"
    /\ \A name \in AllNames : EntriesFor(ledger.upload, name) # {}

\* C40: reprocessing an item from its stored normalized text derives the
\* same item name, and so the same record identifiers, as ingesting it
\* from its raw source, for every original file extension: the two paths
\* overwrite each other's records and leave one set of records
C40_ReprocessUsesSameName ==
    call.fn = "reprocess"
        => /\ call.reprocessed
                  => reprocess_filename(transform_path(call.key)) = PathName(call.key)
           /\ (call.ingested /\ call.reprocessed)
                  => /\ Cardinality(call.fpoints) = 1
                     /\ Cardinality(call.cpoints) = call.nchunks

\* a PDF of a plain name went through both paths and has one set of records
C40_Witness ==
    /\ call.fn = "reprocess" /\ call.ingested /\ call.reprocessed
    /\ call.key.ext = "pdf" /\ call.key.stem \notin DottedStems
    /\ Cardinality(call.fpoints) = 1
    /\ Cardinality(call.cpoints) = call.nchunks

====
